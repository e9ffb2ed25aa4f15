------------------------------ MODULE SSServer ------------------------------
(***************************************************************************)
(* The SS_Server, the HTTP server the SS_Clients fetch data items from,    *)
(* with the ShowManager its request handler calls.  The io service's       *)
(* thread runs one handler after the other.  An operation of asio          *)
(* completes first, and its handler runs later with that result, even if   *)
(* the socket was closed in between.                                       *)
(*                                                                         *)
(* The show is loaded before a server starts, and reset after it ended, as *)
(* ShowManager.h asks.  A connection serves one request, whose text arrives *)
(* in pieces; when it is destroyed, its name is free for another.          *)
(***************************************************************************)
EXTENDS ShowManager, RequestParser

CONSTANTS
  Conns,          \* the connections a server may be asked for
  Requests,       \* what the clients ask, [form, start, count]
  Lists,          \* what AddCPLList is called with
  UnitsPerRequest,\* maxEditUnitsPerRequest_
  Texts,          \* the texts of requests that clients send
  WellFormed,     \* those that are requests of HTTP, with more behind them or not
  PieceLengths,   \* the lengths of pieces, besides all that is left
  MaxGenerations  \* bound on the calls of Reset

ASSUME SSServerAssumption ==
  /\ Requests \subseteq [form : {"wellFormed", "malformed", "unacceptable"}, start : Int, count : Int]
  /\ Null \notin Requests /\ Lists \subseteq Seq(Files)
  /\ \A t \in Texts : t \in Seq(Characters) /\ t # <<>>
  /\ WellFormed \subseteq Texts
  /\ {UnitsPerRequest, MaxGenerations} \subseteq Nat /\ PieceLengths \subseteq Nat \ {0}

VARIABLES
  phase,          \* of the server: absent, running, or stopped by a signal
  accepting,      \* the accept: none, or its result
  acceptedSocket, \* socket_: the connection the accept has found
  connections,    \* connections_ of the connection_manager
  socket,         \* of every connection
  operation,      \* its asynchronous operation: none, read or write
  result,         \* and how that ended
  unread,         \* what is left of its client's text
  text,           \* history: that text
  parser,         \* request_parser_
  reply           \* reply_, with whether the parser was the show's own

serverVars == <<accepting, acceptedSocket, connections>>
connVars == <<socket, operation, result, unread, text, parser, reply>>
vars == <<managerVars, phase, serverVars, connVars>>

InitConns ==
  /\ socket = [c \in Conns |-> "unused"]
  /\ operation = [c \in Conns |-> "none"] /\ result = [c \in Conns |-> "none"]
  /\ unread = [c \in Conns |-> <<>>] /\ text = [c \in Conns |-> <<>>]
  /\ parser = [c \in Conns |-> NewParser] /\ reply = [c \in Conns |-> Null]

Init ==
  /\ InitManager /\ InitConns
  /\ phase = "absent" /\ accepting = "none" /\ acceptedSocket = Null /\ connections = {}

(* What the program does with the ShowManager while no server runs.        *)
PrepareShow ==
  /\ phase = "absent"
  /\ \/ \E f \in Files : AddCPL(f)
     \/ \E files \in Lists : AddCPLList(files)
     \/ Load
     \/ generation < MaxGenerations /\ show # Null /\ Reset
  /\ UNCHANGED <<phase, serverVars, connVars>>

(* The constructor, and the end of the io service's run.                   *)
Start ==
  /\ phase = "absent" /\ showLoaded
  /\ phase' = "running" /\ accepting' = "pending"
  /\ UNCHANGED <<managerVars, acceptedSocket, connections, connVars>>

Idle == accepting = "none" /\ \A c \in Conns : operation[c] = "none"

End ==
  /\ phase = "stopped" /\ Idle
  /\ phase' = "absent" /\ acceptedSocket' = Null
  /\ socket' = [c \in Conns |-> "unused"]
  /\ unread' = [c \in Conns |-> <<>>] /\ text' = [c \in Conns |-> <<>>]
  /\ UNCHANGED <<managerVars, accepting, connections, operation, result, parser, reply>>

-----------------------------------------------------------------------------
(* The clients and asio.                                                   *)
Connect(c) ==
  /\ phase = "running" /\ socket[c] = "unused"
  /\ socket' = [socket EXCEPT ![c] = "queued"]
  /\ \E t \in Texts : unread' = [unread EXCEPT ![c] = t] /\ text' = [text EXCEPT ![c] = t]
  /\ UNCHANGED <<managerVars, phase, serverVars, operation, result, parser, reply>>

AcceptCompletes ==
  /\ accepting = "pending"
  /\ \/ accepting' = "failed" /\ UNCHANGED acceptedSocket
     \/ \E c \in Conns : socket[c] = "queued" /\ accepting' = "ok" /\ acceptedSocket' = c
  /\ UNCHANGED <<managerVars, phase, connections, connVars>>

(* A read goes on while the client owes some of its text.                  *)
OperationCompletes(c) ==
  /\ operation[c] # "none" /\ result[c] = "pending"
  /\ \/ /\ operation[c] = "read" => unread[c] # <<>>
        /\ result' = [result EXCEPT ![c] = "ok"]
     \/ result' = [result EXCEPT ![c] = "error"]
  /\ UNCHANGED <<managerVars, phase, serverVars, socket, operation, unread, text, parser, reply>>

(* An operation begun on a closed socket fails, but is not aborted.        *)
Begin(c, op) ==
  /\ operation' = [operation EXCEPT ![c] = op]
  /\ result' = [result EXCEPT ![c] = IF socket[c] = "open" THEN "pending" ELSE "error"]

(* Closing a socket aborts what is still pending on it.                    *)
ResultWhenClosed(c) ==
  IF operation[c] # "none" /\ result[c] = "pending" THEN "aborted" ELSE result[c]

-----------------------------------------------------------------------------
(* The server's handlers.                                                  *)
HandleAccept ==
  /\ accepting \in {"ok", "failed", "aborted"}
  /\ IF phase = "stopped"
     THEN accepting' = "none" /\ UNCHANGED <<acceptedSocket, connections, connVars>>
     ELSE /\ accepting' = "pending" /\ acceptedSocket' = Null
          /\ IF accepting = "ok"
             THEN /\ connections' = connections \union {acceptedSocket}
                  /\ socket' = [socket EXCEPT ![acceptedSocket] = "open"]
                  /\ operation' = [operation EXCEPT ![acceptedSocket] = "read"]
                  /\ result' = [result EXCEPT ![acceptedSocket] = "pending"]
             ELSE UNCHANGED <<connections, socket, operation, result>>
          /\ UNCHANGED <<unread, text, parser, reply>>
  /\ UNCHANGED <<managerVars, phase>>

\* Mutated: the sockets stay open.
StopAllOnlyForgets ==
  /\ connections' = {}
  /\ UNCHANGED <<socket, result>>

StopAll ==
  /\ connections' = {}
  /\ socket' = [c \in Conns |-> IF c \in connections THEN "closed" ELSE socket[c]]
  /\ result' = [c \in Conns |-> IF c \in connections THEN ResultWhenClosed(c) ELSE result[c]]

HandleSignal ==
  /\ phase = "running"
  /\ phase' = "stopped"
  /\ accepting' = IF accepting = "pending" THEN "aborted" ELSE accepting
  /\ StopAll
  /\ UNCHANGED <<managerVars, acceptedSocket, operation, unread, text, parser, reply>>

(* The connection's last handler ends, and with it the connection.         *)
Destroy(c) ==
  /\ socket' = [socket EXCEPT ![c] = "unused"]
  /\ operation' = [operation EXCEPT ![c] = "none"] /\ result' = [result EXCEPT ![c] = "none"]
  /\ unread' = [unread EXCEPT ![c] = <<>>] /\ text' = [text EXCEPT ![c] = <<>>]
  /\ parser' = [parser EXCEPT ![c] = NewParser] /\ reply' = [reply EXCEPT ![c] = Null]

StopConnection(c) == connections' = connections \ {c} /\ Destroy(c)

FreshParser == auxDataParser = Null \/ auxDataParser.for = generation

(* request_handler::handle_request.  It replies ok whatever GetDataItems   *)
(* returned.                                                               *)
HandleRequest(c, request) ==
  IF request.form # "wellFormed"
  THEN /\ reply' = [reply EXCEPT ![c] =
                     [status |-> IF request.form = "malformed" THEN "bad_request" ELSE "not_found",
                      request |-> request, content |-> NoContent, fresh |-> FreshParser]]
       /\ UNCHANGED managerVars
  ELSE \E missing \in SUBSET Unreliable :
         LET count == IF request.count > UnitsPerRequest THEN UnitsPerRequest ELSE request.count
             read == GetDataItems(request.start, count, missing)
         IN /\ reply' = [reply EXCEPT ![c] =
                          [status |-> "ok", request |-> request,
                           content |-> Content(request.start, read), fresh |-> FreshParser]]
            /\ auxDataParser' = read.parser
            /\ UNCHANGED <<CPLList, show, showLoaded, generation>>

(* The reply to a text that is no request.                                 *)
StockReply(c) ==
  /\ reply' = [reply EXCEPT ![c] = [status |-> "bad_request", request |-> Null,
                                    content |-> NoContent, fresh |-> FreshParser]]
  /\ UNCHANGED managerVars

\* Mutated: every piece is parsed from the start.
ParseAnew(c, piece) == ParsePiece(NewParser, piece)

ParseOn(c, piece) == ParsePiece(parser[c], piece)

HandlePiece(c, n) ==
  /\ unread' = [unread EXCEPT ![c] = SubSeq(@, n + 1, Len(@))]
  /\ parser' = [parser EXCEPT ![c] = ParseOn(c, SubSeq(unread[c], 1, n))]
  /\ \/ /\ parser'[c].state = "good"
        /\ \E request \in Requests : HandleRequest(c, request)
        /\ Begin(c, "write")
     \/ /\ parser'[c].state = "bad" /\ StockReply(c)
        /\ Begin(c, "write")
     \/ /\ parser'[c].state \notin {"good", "bad"}
        /\ Begin(c, "read")
        /\ UNCHANGED <<managerVars, reply>>
  /\ UNCHANGED <<connections, socket, text>>

HandleRead(c) ==
  /\ operation[c] = "read"
  /\ \/ /\ result[c] = "ok"
        /\ \E n \in (PieceLengths \intersect 1..Len(unread[c])) \union {Len(unread[c])} : HandlePiece(c, n)
     \/ result[c] = "error" /\ StopConnection(c) /\ UNCHANGED managerVars
     \/ result[c] = "aborted" /\ Destroy(c) /\ UNCHANGED <<managerVars, connections>>
  /\ UNCHANGED <<phase, accepting, acceptedSocket>>

\* Mutated: a connection that was served stays among the connections.
KeepServed(c) ==
  /\ operation[c] = "write" /\ result[c] # "pending"
  /\ IF result[c] = "error" THEN StopConnection(c) ELSE Destroy(c) /\ UNCHANGED connections
  /\ UNCHANGED <<managerVars, phase, accepting, acceptedSocket>>

HandleWrite(c) ==
  /\ operation[c] = "write" /\ result[c] # "pending"
  /\ IF result[c] = "aborted" THEN Destroy(c) /\ UNCHANGED connections ELSE StopConnection(c)
  /\ UNCHANGED <<managerVars, phase, accepting, acceptedSocket>>

Next ==
  \/ PrepareShow \/ Start \/ End
  \/ AcceptCompletes \/ HandleAccept \/ HandleSignal
  \/ \E c \in Conns : Connect(c) \/ OperationCompletes(c) \/ HandleRead(c) \/ HandleWrite(c)

Spec == Init /\ [][Next]_vars

(* Only the io service's thread is fair: it keeps running handlers.  A     *)
(* client may owe its request, or not read its reply, for ever.            *)
Fairness ==
  /\ WF_vars(HandleAccept)
  /\ \A c \in Conns : WF_vars(HandleRead(c)) /\ WF_vars(HandleWrite(c))

FairSpec == Spec /\ Fairness

-----------------------------------------------------------------------------
\* The connection_manager knows the open connections, no other, and each of
\* them waits for an operation whose handler will let it go: none is leaked,
\* whatever came between a completion and its handler.
ConnectionsAreLive ==
  \A c \in Conns :
    /\ c \in connections <=> socket[c] = "open"
    /\ c \in connections => operation[c] # "none"

\* Every frame of a loaded show has one picture with a duration, and is told its rate and
\* its identity, for a time that fits the buffers the SE_Server makes for the longest;
\* behind the last frame there is none.  The one exception is of GetEndFrame: a picture
\* without a duration, listed before all that have one, covers frame 0 as well, which is
\* then told that picture's.
\* (Said of the show a server is started with: it keeps it.)
Tells(info, a) ==
  info.picture = a.id /\ info.rate = <<a.fps, 1>> /\ info.duration = SampleRate \div a.fps

EveryFrameIsShown ==
  showLoaded /\ phase = "absent" =>
    /\ show.frames > 0
    /\ ~FrameInfo(show, show.frames).found
    /\ \A f \in 0 .. show.frames - 1 :
         LET pictures == PlacesAt(show, f, "MainPicture")
             info == FrameInfo(show, f)
         IN  /\ info.found /\ info.duration \in 1..LongestFrameLength(show)
             /\ \E p \in pictures :
                  /\ {q \in pictures : AssetIn(show, q).duration > 0} = {p}
                  /\ \/ Tells(info, AssetIn(show, p))
                     \/ f = 0 /\ \E q \in pictures :
                                   AssetIn(show, q).duration = 0 /\ Tells(info, AssetIn(show, q))

(* What the files say of a frame, whatever parser is open.                 *)
UnitsAt(frame) ==
  LET aux == {AssetIn(show, p) : p \in PlacesOf(show, "AuxData")}
      Item(a) == frame - a.startFrame
      has == {a \in aux : /\ a.path \in DOMAIN Items
                          /\ Item(a) \in 0 .. a.duration - 1 /\ Item(a) < Len(Items[a.path])}
  IN {[path |-> a.path, dataItem |-> Items[a.path][Item(a) + 1]] : a \in has}

(* What the client makes of an answer: of each of its frames the item, at  *)
(* the picture's rate and in the coding of the show's data there.  (An     *)
(* asset without a duration covers frame 0, and then tells its own rate    *)
(* and coding.)                                                            *)
UnitsAreRight(r) ==
  LET got == ReadContent(r.content)
  IN /\ got.start = r.request.start /\ got.count = Len(got.blocks)
     /\ \A i \in DOMAIN got.blocks :
          LET block == got.blocks[i]
              frame == r.request.start + i - 1
          IN /\ block.editUnit = frame
             /\ \E u \in UnitsAt(frame) : block.dataItem = u.dataItem
             /\ block.cryptographicContext = <<>>
             /\ \E p \in PlacesAt(show, frame, "MainPicture") :
                  /\ block.rateNumerator = AssetIn(show, p).fps /\ block.rateDenominator = 1
                  /\ \/ AssetIn(show, p).duration = 0
                     \/ \E a \in PlacesAt(show, frame, "AuxData") :
                          block.codingUL = UL(AssetIn(show, a).coding)

Ok(c) == reply[c] # Null /\ reply[c].status = "ok"

\* The header and the blocks have room for what is asked and what is sent.
NumbersFit ==
  LET Fits(n) == n < Byte * Byte * Byte * Byte
  IN /\ \A r \in Requests :
          r.form = "wellFormed" => r.start \in Nat /\ Fits(r.start + UnitsPerRequest)
     /\ Fits(SampleRate)
     /\ \A p \in DOMAIN Items : \A i \in DOMAIN Items[p] : Fits(Len(Items[p][i]))

\* The texts are told apart by the parser when it gets them in one piece.
KnownInOnePiece == \A t \in Texts : t \in WellFormed <=> ParsePiece(NewParser, t).state = "good"

\* A text is refused only if it is not a request, and as soon as that is
\* known, however it is cut into pieces.
RequestsAreRead ==
  \A c \in Conns : operation[c] = "write" =>
    (reply[c].request # Null <=> text[c] \in WellFormed)

\* The parser kept between requests does not show: a request is answered with
\* the units of consecutive frames, those the show has there.
AnswersWithTheShow ==
  \A c \in Conns : Ok(c) /\ reply[c].fresh => UnitsAreRight(reply[c])

\* An answer only ends before what was asked, or the maximum, where the show
\* has no unit or its file cannot always be opened.
AnswersInFull ==
  \A c \in Conns : Ok(c) /\ reply[c].fresh =>
    LET n == ReadTransferHeader(reply[c].content).value.count
    IN \/ n >= reply[c].request.count \/ n = UnitsPerRequest
       \/ \A u \in UnitsAt(reply[c].request.start + n) : u.path \in Unreliable

\* A request is answered from the show that is loaded, also after a reset
\* (ShowManager.h: "Resets the ShowManager").
ServesTheLoadedShow ==
  \A c \in Conns : Ok(c) => UnitsAreRight(reply[c])

\* Once a signal stopped the server no handler stays pending, and run returns,
\* even when the clients do nothing any more.
StopEnds == phase = "stopped" ~> Idle

=============================================================================
