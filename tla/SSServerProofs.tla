--------------------------- MODULE SSServerProofs ---------------------------
(***************************************************************************)
(* The connections of the data server, for any number of clients, any      *)
(* texts they send in any pieces, any show, and a stop at any time: none   *)
(* is leaked or lost, the manager only knows those that are open, and the  *)
(* cuts between the pieces do not show in what is read.  Every frame of a  *)
(* loaded show is shown, what is written of its data is read, and every    *)
(* request is answered with the data of the frames it asks for.            *)
(***************************************************************************)
EXTENDS SSServer, FlattenTheorems, TLAPS

ConnectionTypes ==
  /\ socket \in [Conns -> {"unused", "queued", "open", "closed"}]
  /\ operation \in [Conns -> {"none", "read", "write"}]
  /\ result \in [Conns -> {"none", "pending", "ok", "error", "aborted"}]
  /\ connections \subseteq Conns

\* A connection lives, from its accept to its last handler, while it has an operation.
LivesByItsOperation ==
  \A c \in Conns :
    /\ operation[c] # "none" <=> socket[c] \in {"open", "closed"}
    /\ operation[c] = "none" => result[c] = "none"

\* An operation is only aborted by the stop that closed its socket.
AbortedIsClosed == \A c \in Conns : result[c] = "aborted" => socket[c] = "closed"

\* The socket an accept has found still waits to be opened.
AcceptedIsQueued == accepting = "ok" => acceptedSocket \in Conns /\ socket[acceptedSocket] = "queued"

ConnectionsInv ==
  /\ ConnectionTypes /\ LivesByItsOperation /\ AbortedIsClosed /\ AcceptedIsQueued
  /\ \A c \in Conns : c \in connections <=> socket[c] = "open"

USE DEF ConnectionsInv, ConnectionTypes, LivesByItsOperation, AbortedIsClosed, AcceptedIsQueued

LEMMA InitConnectionsInv == Init => ConnectionsInv
  BY DEF Init, InitConns

\* Nothing of the connections changes, and no accept is found.
LEMMA ConnectionsLeftAlone ==
  ASSUME ConnectionsInv, UNCHANGED <<socket, operation, result, connections>>,
         accepting' # "ok" \/ UNCHANGED <<accepting, acceptedSocket>>
  PROVE  ConnectionsInv'
  OBVIOUS

LEMMA AcceptKeeps ==
  ASSUME ConnectionsInv, AcceptCompletes \/ HandleAccept
  PROVE  ConnectionsInv'
<1>1. CASE AcceptCompletes
  BY <1>1 DEF AcceptCompletes, connVars
<1>2. CASE HandleAccept /\ UNCHANGED <<connections, socket, operation, result>>
  BY <1>2, ConnectionsLeftAlone DEF HandleAccept, connVars
<1>3. CASE HandleAccept /\ accepting = "ok" /\ phase # "stopped"
  <2>1. /\ accepting' = "pending" /\ acceptedSocket \in Conns
        /\ connections' = connections \union {acceptedSocket}
        /\ socket' = [socket EXCEPT ![acceptedSocket] = "open"]
        /\ operation' = [operation EXCEPT ![acceptedSocket] = "read"]
        /\ result' = [result EXCEPT ![acceptedSocket] = "pending"]
    BY <1>3 DEF HandleAccept
  <2>2. QED
    BY <2>1
<1>4. QED
  BY <1>1, <1>2, <1>3 DEF HandleAccept, connVars

LEMMA DestroyKeeps ==
  ASSUME ConnectionsInv, NEW c \in Conns, operation[c] # "none", Destroy(c),
         connections' = connections \ {c}, UNCHANGED <<accepting, acceptedSocket>>
  PROVE  ConnectionsInv'
  BY DEF Destroy

LEMMA HandlersKeep ==
  ASSUME ConnectionsInv, NEW c \in Conns, HandleRead(c) \/ HandleWrite(c)
  PROVE  ConnectionsInv'
<1>1. operation[c] # "none" /\ UNCHANGED <<accepting, acceptedSocket>>
  BY DEF HandleRead, HandleWrite
<1>2. CASE StopConnection(c)
  BY <1>1, <1>2, DestroyKeeps DEF StopConnection
<1>3. CASE result[c] = "aborted" /\ Destroy(c) /\ UNCHANGED connections
  <2>1. c \notin connections
    BY <1>3
  <2>2. connections' = connections \ {c}
    BY <1>3, <2>1
  <2>3. QED
    BY <1>1, <1>3, <2>2, DestroyKeeps
<1>4. ASSUME NEW n, HandlePiece(c, n), result[c] = "ok"
      PROVE  ConnectionsInv'
  <2>1. PICK op \in {"read", "write"} : Begin(c, op)
    BY <1>4 DEF HandlePiece
  <2>2. UNCHANGED <<connections, socket>>
    BY <1>4 DEF HandlePiece
  <2>3. QED
    BY <1>1, <2>1, <2>2 DEF Begin
<1>5. QED
  BY <1>2, <1>3, <1>4 DEF HandleRead, HandleWrite

LEMMA SignalKeeps ==
  ASSUME ConnectionsInv, HandleSignal
  PROVE  ConnectionsInv'
<1>1. /\ connections' = {} /\ UNCHANGED <<operation, acceptedSocket>>
      /\ socket' = [c \in Conns |-> IF c \in connections THEN "closed" ELSE socket[c]]
      /\ result' = [c \in Conns |-> IF c \in connections THEN ResultWhenClosed(c) ELSE result[c]]
      /\ accepting' = "ok" => accepting = "ok"
  BY DEF HandleSignal, StopAll
<1>2. QED
  BY <1>1 DEF ResultWhenClosed

LEMMA ServerKeeps ==
  ASSUME ConnectionsInv, [Next]_vars
  PROVE  ConnectionsInv'
<1>1. CASE PrepareShow \/ UNCHANGED vars
  BY <1>1, ConnectionsLeftAlone DEF PrepareShow, serverVars, connVars, vars
<1>2. CASE Start
  BY <1>2, ConnectionsLeftAlone DEF Start, connVars
<1>3. CASE End
  BY <1>3 DEF End, Idle
<1>4. ASSUME NEW c \in Conns, Connect(c)
      PROVE  ConnectionsInv'
  BY <1>4 DEF Connect, serverVars
<1>5. ASSUME NEW c \in Conns, OperationCompletes(c)
      PROVE  ConnectionsInv'
  BY <1>5 DEF OperationCompletes, serverVars
<1>6. QED
  BY <1>1, <1>2, <1>3, <1>4, <1>5, AcceptKeeps, HandlersKeep, SignalKeeps DEF Next

\* Whatever comes between a completion and its handler, a stop included, the manager
\* knows the open connections and no other, and each has an operation under way.
THEOREM NoneIsLeaked == Spec => []ConnectionsAreLive
<1>1. ConnectionsInv => ConnectionsAreLive
  BY DEF ConnectionsAreLive
<1>2. QED
  BY <1>1, InitConnectionsInv, ServerKeeps, PTL DEF Spec

-----------------------------------------------------------------------------
(* The parser.                                                             *)

LEMMA ConsumeIs ==
  ASSUME NEW p \in Parsers, NEW input \in Characters
  PROVE  /\ Consume[p][input] \in Parsers
         /\ p.state \in {"good", "bad"} => Consume[p][input] = p
<1> DEFINE to == Targets(p, input)
           next == [state |-> IF to = {} THEN "bad" ELSE CHOOSE s \in to : TRUE,
                    headers |-> p.headers \/ "header_name" \in to]
<1>1. Consume[p][input] = IF p.state \in {"good", "bad"} THEN p
                          ELSE IF FoldsLine(p, input) THEN [p EXCEPT !.state = "header_lws"]
                          ELSE next
  BY DEF Consume
<1>2. \A s \in DOMAIN Moves : \A m \in Moves[s] : m[2] \in ParserStates
  BY DEF Moves, ParserStates
<1>3. p.state \notin {"good", "bad"} => p.state \in DOMAIN Moves
  BY DEF Parsers, ParserStates
<1>4. p.state \notin {"good", "bad"} => to \subseteq ParserStates
  BY <1>2, <1>3 DEF Targets
<1>5. "bad" \in ParserStates /\ "header_lws" \in ParserStates
  BY DEF ParserStates, Moves
<1> HIDE DEF to
<1>6. p.state \notin {"good", "bad"} =>
        (IF to = {} THEN "bad" ELSE CHOOSE s \in to : TRUE) \in ParserStates
  BY <1>4, <1>5
<1>7. (p.headers \/ "header_name" \in to) \in BOOLEAN
  OBVIOUS
<1>8. p.state \notin {"good", "bad"} => next \in Parsers
  BY <1>6, <1>7 DEF Parsers
<1> HIDE DEF next
<1>9. [p EXCEPT !.state = "header_lws"] \in Parsers
  BY <1>5 DEF Parsers
<1>10. QED
  BY <1>1, <1>8, <1>9

\* f[i] is the parser after the first i characters of s.
ParsesTo(f, p, s, n) ==
  f = [i \in 0 .. n |-> IF i = 0 THEN p ELSE Consume[f[i - 1]][s[i]]]

LEMMA ParsesExists ==
  ASSUME NEW p, NEW s, NEW n \in Nat
  PROVE  \E f : ParsesTo(f, p, s, n)
<1> DEFINE Holds == {i \in Nat : \E f : ParsesTo(f, p, s, i)}
<1>1. 0 \in Holds
  <2> DEFINE f == [i \in 0 .. 0 |-> p]
  <2>1. f = [i \in 0 .. 0 |-> IF i = 0 THEN p ELSE Consume[f[i - 1]][s[i]]]
    <3>1. \A i \in 0 .. 0 : i = 0
      OBVIOUS
    <3> DEFINE h == [i \in 0 .. 0 |-> IF i = 0 THEN p ELSE Consume[f[i - 1]][s[i]]]
    <3>2. \A i \in 0 .. 0 : f[i] = h[i]
      BY <3>1
    <3>3. QED
      BY <3>2
  <2> HIDE DEF f
  <2>2. QED
    BY <2>1 DEF ParsesTo
<1>2. ASSUME NEW k \in Nat, k < n, k \in Holds
      PROVE  k + 1 \in Holds
  <2>1. PICK f : ParsesTo(f, p, s, k)
    BY <1>2
  <2> DEFINE g == [i \in 0 .. k + 1 |-> IF i = 0 THEN p ELSE Consume[f[i - 1]][s[i]]]
             h == [i \in 0 .. k + 1 |-> IF i = 0 THEN p ELSE Consume[g[i - 1]][s[i]]]
  <2>2. \A i \in 0 .. k : f[i] = IF i = 0 THEN p ELSE Consume[f[i - 1]][s[i]]
    BY <2>1 DEF ParsesTo
  <2>3. \A i \in 0 .. k : g[i] = f[i]
    BY <2>2
  <2>4. \A i \in 0 .. k + 1 : i # 0 => i - 1 \in 0 .. k
    OBVIOUS
  <2>5. \A i \in 0 .. k + 1 : g[i] = h[i]
    BY <2>3, <2>4
  <2>6. g = h
    BY <2>5
  <2> HIDE DEF g
  <2>7. ParsesTo(g, p, s, k + 1)
    BY <2>6 DEF ParsesTo
  <2>8. QED
    BY <2>7
<1>3. Holds \in SUBSET Nat
  OBVIOUS
<1> HIDE DEF Holds
<1>4. 0 .. n \subseteq Holds
  BY <1>1, <1>2, <1>3, FromZero
<1>5. n \in Holds
  BY <1>4
<1>6. QED
  BY <1>5 DEF Holds

LEMMA ParsesSteps ==
  ASSUME NEW f, NEW p, NEW s, NEW n \in Nat, ParsesTo(f, p, s, n)
  PROVE  f[0] = p /\ \A k \in Nat : k < n => f[k + 1] = Consume[f[k]][s[k + 1]]
<1>1. \A i \in 0 .. n : f[i] = IF i = 0 THEN p ELSE Consume[f[i - 1]][s[i]]
  BY DEF ParsesTo
<1>2. ASSUME NEW k \in Nat, k < n
      PROVE  f[k + 1] = Consume[f[k]][s[k + 1]]
  <2>1. k + 1 \in 0 .. n /\ k + 1 # 0 /\ (k + 1) - 1 = k
    BY <1>2
  <2>2. f[k + 1] = Consume[f[(k + 1) - 1]][s[k + 1]]
    BY ONLY <1>1, <2>1
  <2>3. QED
    BY <2>1, <2>2
<1>3. QED
  BY <1>1, <1>2

LEMMA PieceParses ==
  ASSUME NEW p, NEW s, NEW n \in Nat, Len(s) = n
  PROVE  \E f : ParsesTo(f, p, s, n) /\ ParsePiece(p, s) = f[n]
<1> DEFINE after == CHOOSE f : ParsesTo(f, p, s, n)
<1>1. ParsesTo(after, p, s, n)
  BY ParsesExists
<1>2. ParsePiece(p, s) = after[n]
  BY DEF ParsePiece, ParsesTo
<1>3. QED
  BY <1>1, <1>2

LEMMA ParsesType ==
  ASSUME NEW f, NEW p \in Parsers, NEW s \in Seq(Characters), ParsesTo(f, p, s, Len(s))
  PROVE  /\ \A i \in 0 .. Len(s) : f[i] \in Parsers
         /\ p.state \in {"good", "bad"} => f[Len(s)] = p
<1> DEFINE Holds == {i \in 0 .. Len(s) : f[i] \in Parsers /\ (p.state \in {"good", "bad"} => f[i] = p)}
<1>1. /\ Len(s) \in Nat
      /\ \A k \in Nat : k < Len(s) => s[k + 1] \in Characters
  OBVIOUS
<1>2. f[0] = p /\ \A k \in Nat : k < Len(s) => f[k + 1] = Consume[f[k]][s[k + 1]]
  BY <1>1, ParsesSteps
<1>3. 0 \in Holds
  BY <1>1, <1>2
<1>4. ASSUME NEW k \in Nat, k < Len(s), k \in Holds
      PROVE  k + 1 \in Holds
  <2>1. f[k] \in Parsers /\ (p.state \in {"good", "bad"} => f[k] = p)
    BY <1>4
  <2>2. f[k + 1] \in Parsers /\ (f[k].state \in {"good", "bad"} => f[k + 1] = f[k])
    BY <1>1, <1>2, <1>4, <2>1, ConsumeIs
  <2>3. k + 1 \in 0 .. Len(s)
    BY <1>1, <1>4
  <2>4. QED
    BY <2>1, <2>2, <2>3
<1>5. Holds \in SUBSET Nat
  OBVIOUS
<1> HIDE DEF Holds
<1>6. 0 .. Len(s) \subseteq Holds
  BY <1>1, <1>3, <1>4, <1>5, FromZero
<1>7. Len(s) \in 0 .. Len(s)
  BY <1>1
<1>8. QED
  BY <1>6, <1>7 DEF Holds

LEMMA PieceType ==
  ASSUME NEW p \in Parsers, NEW s \in Seq(Characters)
  PROVE  /\ ParsePiece(p, s) \in Parsers
         /\ p.state \in {"good", "bad"} => ParsePiece(p, s) = p
<1>1. Len(s) \in Nat /\ Len(s) \in 0 .. Len(s)
  OBVIOUS
<1>2. PICK f : ParsesTo(f, p, s, Len(s)) /\ ParsePiece(p, s) = f[Len(s)]
  BY <1>1, PieceParses
<1>3. QED
  BY <1>1, <1>2, ParsesType

\* Two pieces in a row do what they do as one.
LEMMA PiecesJoin ==
  ASSUME NEW p \in Parsers, NEW t \in Seq(Characters), NEW k \in Nat, NEW m \in Nat, k + m <= Len(t)
  PROVE  ParsePiece(ParsePiece(p, SubSeq(t, 1, k)), SubSeq(t, k + 1, k + m))
           = ParsePiece(p, SubSeq(t, 1, k + m))
<1> DEFINE a == SubSeq(t, 1, k)
           b == SubSeq(t, k + 1, k + m)
           c == SubSeq(t, 1, k + m)
<1>1. /\ a \in Seq(Characters) /\ Len(a) = k /\ \A i \in Nat : i < k => a[i + 1] = t[i + 1]
      /\ b \in Seq(Characters) /\ Len(b) = m /\ \A i \in Nat : i < m => b[i + 1] = t[k + i + 1]
      /\ c \in Seq(Characters) /\ Len(c) = k + m /\ \A i \in Nat : i < k + m => c[i + 1] = t[i + 1]
  OBVIOUS
<1> HIDE DEF a, b, c
<1>2. Len(a) = k /\ Len(b) = m /\ Len(c) = k + m /\ k + m \in Nat
  BY <1>1
<1>3. PICK f : ParsesTo(f, p, a, k) /\ ParsePiece(p, a) = f[k]
  BY <1>2, PieceParses
<1>4. PICK g : ParsesTo(g, f[k], b, m) /\ ParsePiece(f[k], b) = g[m]
  BY <1>2, PieceParses
<1>5. PICK h : ParsesTo(h, p, c, k + m) /\ ParsePiece(p, c) = h[k + m]
  BY <1>2, PieceParses
<1>6. f[0] = p /\ \A i \in Nat : i < k => f[i + 1] = Consume[f[i]][a[i + 1]]
  BY <1>3, ParsesSteps
<1>7. g[0] = f[k] /\ \A i \in Nat : i < m => g[i + 1] = Consume[g[i]][b[i + 1]]
  BY <1>4, ParsesSteps
<1>8. h[0] = p /\ \A i \in Nat : i < k + m => h[i + 1] = Consume[h[i]][c[i + 1]]
  <2>1. k + m \in Nat
    OBVIOUS
  <2>2. QED
    BY <1>5, <2>1, ParsesSteps
<1>9. f[k] = h[k]
  <2> DEFINE Holds == {i \in 0 .. k : f[i] = h[i]}
  <2>1. 0 \in Holds
    BY <1>6, <1>8
  <2>2. ASSUME NEW i \in Nat, i < k, i \in Holds
        PROVE  i + 1 \in Holds
    <3>1. i < k + m /\ i + 1 \in 0 .. k
      BY <2>2
    <3>2. f[i + 1] = Consume[f[i]][a[i + 1]] /\ a[i + 1] = t[i + 1]
      BY <1>1, <1>6, <2>2
    <3>3. h[i + 1] = Consume[h[i]][c[i + 1]] /\ c[i + 1] = t[i + 1]
      BY <1>1, <1>8, <3>1
    <3>4. f[i] = h[i]
      BY <2>2
    <3>5. QED
      BY <3>1, <3>2, <3>3, <3>4
  <2>3. Holds \in SUBSET Nat
    OBVIOUS
  <2> HIDE DEF Holds
  <2>4. 0 .. k \subseteq Holds
    BY <2>1, <2>2, <2>3, FromZero
  <2>5. k \in Holds
    BY <2>4
  <2>6. QED
    BY <2>5 DEF Holds
<1>10. g[m] = h[k + m]
  <2> DEFINE Holds == {i \in 0 .. m : g[i] = h[k + i]}
  <2>1. 0 \in Holds
    <3>1. k + 0 = k /\ 0 \in 0 .. m
      OBVIOUS
    <3>2. QED
      BY <1>7, <1>9, <3>1
  <2>2. ASSUME NEW i \in Nat, i < m, i \in Holds
        PROVE  i + 1 \in Holds
    <3>1. k + i \in Nat /\ k + i < k + m /\ i + 1 \in 0 .. m /\ k + (i + 1) = (k + i) + 1
      BY <2>2
    <3>2. h[(k + i) + 1] = Consume[h[k + i]][c[(k + i) + 1]] /\ c[(k + i) + 1] = t[(k + i) + 1]
      BY <1>1, <1>8, <3>1
    <3>3. g[i + 1] = Consume[g[i]][b[i + 1]] /\ b[i + 1] = t[(k + i) + 1]
      BY <1>1, <1>7, <2>2
    <3>4. g[i] = h[k + i]
      BY <2>2
    <3>5. g[i + 1] = h[k + (i + 1)]
      BY <3>1, <3>2, <3>3, <3>4
    <3>6. QED
      BY <3>1, <3>5
  <2>3. Holds \in SUBSET Nat
    OBVIOUS
  <2> HIDE DEF Holds
  <2>4. 0 .. m \subseteq Holds
    BY <2>1, <2>2, <2>3, FromZero
  <2>5. m \in Holds
    BY <2>4
  <2>6. QED
    BY <2>5 DEF Holds
<1>11. QED
  BY <1>3, <1>4, <1>5, <1>10 DEF a, b, c

-----------------------------------------------------------------------------
(* The requests.                                                           *)

\* What is left of a connection's text, and its parser, when k characters were parsed.
Consumed(c, k) ==
  /\ unread[c] = SubSeq(text[c], k + 1, Len(text[c]))
  /\ parser[c] = ParsePiece(NewParser, SubSeq(text[c], 1, k))

TextTypes ==
  /\ unread \in [Conns -> Seq(Characters)] /\ text \in [Conns -> Seq(Characters)]
  /\ parser \in [Conns -> Parsers] /\ reply = [c \in Conns |-> reply[c]]

\* A connection without an operation has parsed nothing.
NothingIsParsed == \A c \in Conns : operation[c] = "none" => parser[c] = NewParser /\ unread[c] = text[c]

ParsedInPieces == \A c \in Conns : \E k \in 0 .. Len(text[c]) : Consumed(c, k)

TextsAreSent == \A c \in Conns : text[c] \in Texts \/ text[c] = <<>>

AnswersTheParser ==
  \A c \in Conns : operation[c] = "write" =>
    /\ parser[c].state \in {"good", "bad"}
    /\ reply[c].request # Null <=> parser[c].state = "good"

ReadInv == TextTypes /\ NothingIsParsed /\ ParsedInPieces /\ TextsAreSent /\ AnswersTheParser

LEMMA NewParserIs == NewParser \in Parsers /\ NewParser.state \notin {"good", "bad"}
  BY DEF NewParser, Parsers, ParserStates, Moves

LEMMA PieceOfNone ==
  ASSUME NEW p
  PROVE  ParsePiece(p, <<>>) = p
<1>1. PICK f : ParsesTo(f, p, <<>>, 0) /\ ParsePiece(p, <<>>) = f[0]
  <2>1. Len(<<>>) = 0 /\ 0 \in Nat
    OBVIOUS
  <2>2. QED
    BY <2>1, PieceParses
<1>2. QED
  BY <1>1, ParsesSteps

\* Before its first piece, nothing of a text is consumed.
LEMMA NoneConsumed ==
  ASSUME NEW t \in Seq(Characters)
  PROVE  /\ 0 \in 0 .. Len(t) /\ t = SubSeq(t, 0 + 1, Len(t))
         /\ NewParser = ParsePiece(NewParser, SubSeq(t, 1, 0))
<1>1. \A S : \A q \in Seq(S) : 0 \in 0 .. Len(q) /\ q = SubSeq(q, 0 + 1, Len(q)) /\ SubSeq(q, 1, 0) = <<>>
  OBVIOUS
<1>2. QED
  BY <1>1, PieceOfNone

LEMMA TextsType == Texts \subseteq Seq(Characters) /\ <<>> \notin WellFormed /\ Null \notin Requests
  BY SSServerAssumption

LEMMA InitReads == Init => ReadInv
<1> SUFFICES ASSUME Init PROVE ReadInv
  OBVIOUS
<1>1. /\ unread = [c \in Conns |-> <<>>] /\ text = [c \in Conns |-> <<>>]
      /\ parser = [c \in Conns |-> NewParser] /\ reply = [c \in Conns |-> Null]
      /\ operation = [c \in Conns |-> "none"]
  BY DEF Init, InitConns
<1>2. <<>> \in Seq(Characters)
  OBVIOUS
<1>3. TextTypes
  BY <1>1, <1>2, NewParserIs DEF TextTypes
<1>4. ParsedInPieces
  BY <1>1, <1>2, NoneConsumed DEF ParsedInPieces, Consumed
<1>5. QED
  BY <1>1, <1>3, <1>4 DEF ReadInv, NothingIsParsed, TextsAreSent, AnswersTheParser

\* The texts and parsers are left alone, and no operation ends or becomes a write.
LEMMA ReadsLeftAlone ==
  ASSUME ReadInv, UNCHANGED <<unread, text, parser, reply>>,
         \A c \in Conns : \/ operation'[c] = operation[c]
                          \/ operation[c] = "none" /\ operation'[c] = "read"
  PROVE  ReadInv'
<1>1. TextTypes'
  BY DEF ReadInv, TextTypes
<1>2. NothingIsParsed' /\ AnswersTheParser'
  BY DEF ReadInv, NothingIsParsed, AnswersTheParser
<1>3. ParsedInPieces' /\ TextsAreSent'
  BY DEF ReadInv, ParsedInPieces, Consumed, TextsAreSent
<1>4. QED
  BY <1>1, <1>2, <1>3 DEF ReadInv

\* A connection is new.
Fresh(c, t) ==
  /\ operation'[c] = "none" /\ unread'[c] = t /\ text'[c] = t /\ parser'[c] = NewParser
  /\ t \in Texts \/ t = <<>>

LEMMA FreshReads ==
  ASSUME ReadInv, TextTypes',
         \A c \in Conns : \/ \E t : Fresh(c, t)
                          \/ /\ operation'[c] = operation[c] /\ unread'[c] = unread[c]
                             /\ text'[c] = text[c] /\ parser'[c] = parser[c] /\ reply'[c] = reply[c]
  PROVE  ReadInv'
<1>1. ASSUME NEW c \in Conns, NEW t, Fresh(c, t)
      PROVE  /\ operation'[c] = "none" => parser'[c] = NewParser /\ unread'[c] = text'[c]
             /\ \E k \in 0 .. Len(text'[c]) : Consumed(c, k)'
             /\ text'[c] \in Texts \/ text'[c] = <<>>
             /\ operation'[c] # "write"
  <2>1. t \in Seq(Characters)
    BY <1>1 DEF TextTypes, Fresh
  <2>2. Consumed(c, 0)' /\ 0 \in 0 .. Len(text'[c])
    BY <1>1, <2>1, NoneConsumed DEF Fresh, Consumed
  <2>3. QED
    BY <1>1, <2>2 DEF Fresh
<1>2. ASSUME NEW c \in Conns,
             /\ operation'[c] = operation[c] /\ unread'[c] = unread[c]
             /\ text'[c] = text[c] /\ parser'[c] = parser[c] /\ reply'[c] = reply[c]
      PROVE  /\ operation'[c] = "none" => parser'[c] = NewParser /\ unread'[c] = text'[c]
             /\ \E k \in 0 .. Len(text'[c]) : Consumed(c, k)'
             /\ text'[c] \in Texts \/ text'[c] = <<>>
             /\ operation'[c] = "write" =>
                  /\ parser'[c].state \in {"good", "bad"}
                  /\ reply'[c].request # Null <=> parser'[c].state = "good"
  <2>1. \E k \in 0 .. Len(text'[c]) : Consumed(c, k)'
    BY <1>2 DEF ReadInv, ParsedInPieces, Consumed
  <2>2. QED
    BY <1>2, <2>1 DEF ReadInv, NothingIsParsed, TextsAreSent, AnswersTheParser
<1>3. NothingIsParsed'
  BY <1>1, <1>2 DEF NothingIsParsed
<1>4. ParsedInPieces'
  BY <1>1, <1>2 DEF ParsedInPieces
<1>5. TextsAreSent'
  BY <1>1, <1>2 DEF TextsAreSent
<1>6. AnswersTheParser'
  BY <1>1, <1>2 DEF AnswersTheParser
<1>7. QED
  BY <1>3, <1>4, <1>5, <1>6 DEF ReadInv

LEMMA DestroyReads ==
  ASSUME ConnectionsInv, ReadInv, NEW c \in Conns, Destroy(c)
  PROVE  ReadInv'
<1>1. TextTypes'
  <2>1. unread' \in [Conns -> Seq(Characters)] /\ text' \in [Conns -> Seq(Characters)]
    BY DEF Destroy, ReadInv, TextTypes
  <2>2. parser' \in [Conns -> Parsers]
    BY NewParserIs DEF Destroy, ReadInv, TextTypes
  <2>3. reply' = [d \in Conns |-> reply'[d]]
    BY DEF Destroy, ReadInv, TextTypes
  <2>4. QED
    BY <2>1, <2>2, <2>3 DEF TextTypes
<1>2. Fresh(c, <<>>)
  BY DEF Destroy, Fresh, ReadInv, TextTypes
<1>3. \A d \in Conns \ {c} :
        /\ operation'[d] = operation[d] /\ unread'[d] = unread[d]
        /\ text'[d] = text[d] /\ parser'[d] = parser[d] /\ reply'[d] = reply[d]
  BY DEF Destroy, ReadInv, TextTypes
<1>4. QED
  BY <1>1, <1>2, <1>3, FreshReads

\* The next piece is parsed where the one before has ended.
LEMMA PieceConsumed ==
  ASSUME ReadInv, NEW c \in Conns, NEW n \in 1 .. Len(unread[c]) \union {Len(unread[c])},
         text' = text,
         unread' = [unread EXCEPT ![c] = SubSeq(@, n + 1, Len(@))],
         parser' = [parser EXCEPT ![c] = ParseOn(c, SubSeq(unread[c], 1, n))]
  PROVE  /\ \E k \in 0 .. Len(text'[c]) : Consumed(c, k)'
         /\ unread' \in [Conns -> Seq(Characters)] /\ parser' \in [Conns -> Parsers]
<1> DEFINE t == text[c]
           rest == unread[c]
<1>1. t \in Seq(Characters) /\ rest \in Seq(Characters) /\ parser[c] \in Parsers /\ Len(t) \in Nat
  BY DEF ReadInv, TextTypes
<1>2. PICK k \in 0 .. Len(t) : Consumed(c, k)
  BY DEF ReadInv, ParsedInPieces
<1>3. rest = SubSeq(t, k + 1, Len(t)) /\ parser[c] = ParsePiece(NewParser, SubSeq(t, 1, k))
  BY <1>2 DEF Consumed
<1> HIDE DEF t, rest
<1>4. \A S : \A q \in Seq(S) : \A i \in 0 .. Len(q), m \in Nat :
        LET r == SubSeq(q, i + 1, Len(q))
        IN  /\ Len(r) = Len(q) - i
            /\ m <= Len(r) => /\ SubSeq(r, 1, m) = SubSeq(q, i + 1, i + m)
                              /\ SubSeq(r, m + 1, Len(r)) = SubSeq(q, i + m + 1, Len(q))
                              /\ SubSeq(r, 1, m) \in Seq(S) /\ SubSeq(r, m + 1, Len(r)) \in Seq(S)
  OBVIOUS
<1>5. n \in Nat /\ n <= Len(rest) /\ Len(rest) = Len(t) - k /\ k \in Nat /\ k + n \in 0 .. Len(t)
  <2>1. Len(rest) = Len(t) - k
    BY <1>1, <1>3, <1>4
  <2>2. QED
    BY <1>1, <2>1 DEF rest
<1>6. /\ SubSeq(rest, 1, n) = SubSeq(t, k + 1, k + n) /\ SubSeq(rest, 1, n) \in Seq(Characters)
      /\ SubSeq(rest, n + 1, Len(rest)) = SubSeq(t, (k + n) + 1, Len(t))
      /\ SubSeq(rest, n + 1, Len(rest)) \in Seq(Characters)
  BY <1>1, <1>3, <1>4, <1>5
<1>7. /\ parser'[c] = ParsePiece(parser[c], SubSeq(rest, 1, n))
      /\ unread'[c] = SubSeq(rest, n + 1, Len(rest))
  BY DEF ParseOn, ReadInv, TextTypes, rest
<1>8. parser'[c] = ParsePiece(NewParser, SubSeq(t, 1, k + n))
  <2>1. k + n <= Len(t)
    BY <1>1, <1>5
  <2>2. QED
    <3>1. ParsePiece(ParsePiece(NewParser, SubSeq(t, 1, k)), SubSeq(t, k + 1, k + n))
            = ParsePiece(NewParser, SubSeq(t, 1, k + n))
      BY <1>1, <1>5, <2>1, PiecesJoin, NewParserIs
    <3>2. QED
      BY <1>3, <1>6, <1>7, <3>1, Zenon
<1>9. Consumed(c, k + n)'
  BY <1>6, <1>7, <1>8 DEF Consumed, t
<1>10. ParsePiece(parser[c], SubSeq(rest, 1, n)) \in Parsers
  BY <1>1, <1>6, PieceType
<1>11. unread' \in [Conns -> Seq(Characters)] /\ parser' \in [Conns -> Parsers]
  BY <1>6, <1>10 DEF ReadInv, TextTypes, ParseOn, rest
<1>12. QED
  BY <1>5, <1>9, <1>11 DEF t

LEMMA PieceReads ==
  ASSUME ConnectionsInv, ReadInv, NEW c \in Conns,
         NEW n \in (PieceLengths \intersect 1..Len(unread[c])) \union {Len(unread[c])}, HandlePiece(c, n)
  PROVE  ReadInv'
<1>1. /\ text' = text
      /\ unread' = [unread EXCEPT ![c] = SubSeq(@, n + 1, Len(@))]
      /\ parser' = [parser EXCEPT ![c] = ParseOn(c, SubSeq(unread[c], 1, n))]
  BY DEF HandlePiece
<1>2. n \in 1 .. Len(unread[c]) \union {Len(unread[c])}
  OBVIOUS
<1>3. /\ \E k \in 0 .. Len(text'[c]) : Consumed(c, k)'
      /\ unread' \in [Conns -> Seq(Characters)] /\ parser' \in [Conns -> Parsers]
  BY <1>1, <1>2, PieceConsumed
<1>4. \A d \in Conns \ {c} : unread'[d] = unread[d] /\ parser'[d] = parser[d]
  BY <1>1 DEF ReadInv, TextTypes
<1>5. /\ operation'[c] # "none"
      /\ \A d \in Conns \ {c} : operation'[d] = operation[d]
      /\ operation'[c] = "write" => parser'[c].state \in {"good", "bad"}
  BY DEF HandlePiece, Begin
<1>6. /\ reply' = [d \in Conns |-> reply'[d]]
      /\ \A d \in Conns \ {c} : reply'[d] = reply[d]
      /\ operation'[c] = "write" => (reply'[c].request # Null <=> parser'[c].state = "good")
  <2>1. CASE parser'[c].state = "good" /\ \E request \in Requests : HandleRequest(c, request)
    <3>1. PICK request \in Requests : HandleRequest(c, request)
      BY <2>1
    <3>2. PICK s, content, fresh :
            reply' = [reply EXCEPT ![c] = [status |-> s, request |-> request,
                                           content |-> content, fresh |-> fresh]]
      <4>1. CASE request.form # "wellFormed"
        <5>1. reply' = [reply EXCEPT ![c] =
                          [status |-> IF request.form = "malformed" THEN "bad_request" ELSE "not_found",
                           request |-> request, content |-> NoContent, fresh |-> FreshParser]]
          BY <3>1, <4>1, SMT DEF HandleRequest
        <5>2. QED
          BY <5>1, Zenon
      <4>2. CASE request.form = "wellFormed"
        <5> DEFINE count == IF request.count > UnitsPerRequest THEN UnitsPerRequest ELSE request.count
                   read(missing) == GetDataItems(request.start, count, missing)
        <5>1. PICK missing \in SUBSET Unreliable :
                reply' = [reply EXCEPT ![c] = [status |-> "ok", request |-> request,
                            content |-> Content(request.start, read(missing)), fresh |-> FreshParser]]
          BY <3>1, <4>2, Zenon DEF HandleRequest
        <5>2. QED
          BY <5>1, Zenon
      <4>3. QED
        BY <4>1, <4>2
    <3>3. request # Null
      BY TextsType
    <3>4. QED
      BY <2>1, <3>2, <3>3 DEF ReadInv, TextTypes
  <2>2. CASE parser'[c].state = "bad" /\ StockReply(c)
    <3>1. PICK s, content, fresh :
            reply' = [reply EXCEPT ![c] = [status |-> s, request |-> Null,
                                           content |-> content, fresh |-> fresh]]
      BY <2>2, Zenon DEF StockReply
    <3>2. QED
      BY <2>2, <3>1 DEF ReadInv, TextTypes
  <2>3. CASE Begin(c, "read") /\ UNCHANGED reply
    <3>1. operation'[c] = "read"
      BY <2>3 DEF Begin
    <3>2. QED
      BY <2>3, <3>1 DEF ReadInv, TextTypes
  <2>4. QED
    BY <2>1, <2>2, <2>3 DEF HandlePiece
<1>7. TextTypes'
  BY <1>1, <1>3, <1>6 DEF ReadInv, TextTypes
<1>8. NothingIsParsed'
  BY <1>1, <1>4, <1>5 DEF ReadInv, NothingIsParsed
<1>9. ParsedInPieces'
  <2>1. \A d \in Conns \ {c} : \E k \in 0 .. Len(text'[d]) : Consumed(d, k)'
    BY <1>1, <1>4 DEF ReadInv, ParsedInPieces, Consumed
  <2>2. QED
    BY <1>3, <2>1 DEF ParsedInPieces
<1>10. TextsAreSent'
  BY <1>1 DEF ReadInv, TextsAreSent
<1>11. AnswersTheParser'
  BY <1>4, <1>5, <1>6 DEF ReadInv, AnswersTheParser
<1>12. QED
  BY <1>7, <1>8, <1>9, <1>10, <1>11 DEF ReadInv

LEMMA StepReads ==
  ASSUME ConnectionsInv, ReadInv, [Next]_vars
  PROVE  ReadInv'
<1>1. CASE PrepareShow \/ Start \/ AcceptCompletes \/ HandleSignal \/ UNCHANGED vars
  <2>1. UNCHANGED <<unread, text, parser, reply, operation>>
    BY <1>1 DEF PrepareShow, Start, AcceptCompletes, HandleSignal, connVars, vars
  <2>2. QED
    BY <2>1, ReadsLeftAlone
<1>2. CASE HandleAccept
  <2>1. UNCHANGED <<unread, text, parser, reply>>
    BY <1>2 DEF HandleAccept, connVars
  <2>2. CASE UNCHANGED operation
    BY <2>1, <2>2, ReadsLeftAlone
  <2>3. CASE accepting = "ok" /\ operation' = [operation EXCEPT ![acceptedSocket] = "read"]
    <3>1. operation[acceptedSocket] = "none"
      BY <2>3
    <3>2. QED
      BY <2>1, <2>3, <3>1, ReadsLeftAlone
  <2>4. QED
    BY <1>2, <2>2, <2>3 DEF HandleAccept, connVars
<1>3. CASE End
  <2>1. \A c \in Conns : Fresh(c, <<>>)
    BY <1>3 DEF End, Idle, Fresh, ReadInv, NothingIsParsed
  <2>2. TextTypes'
    BY <1>3 DEF End, ReadInv, TextTypes
  <2>3. QED
    BY <2>1, <2>2, FreshReads
<1>4. ASSUME NEW c \in Conns, Connect(c)
      PROVE  ReadInv'
  <2>1. PICK t \in Texts : unread' = [unread EXCEPT ![c] = t] /\ text' = [text EXCEPT ![c] = t]
    BY <1>4 DEF Connect
  <2>2. UNCHANGED <<operation, parser, reply>> /\ operation[c] = "none"
    BY <1>4 DEF Connect
  <2>3. TextTypes'
    BY <2>1, <2>2, TextsType DEF ReadInv, TextTypes
  <2>4. Fresh(c, t)
    BY <2>1, <2>2 DEF Fresh, ReadInv, TextTypes, NothingIsParsed
  <2>5. \A d \in Conns \ {c} :
          /\ operation'[d] = operation[d] /\ unread'[d] = unread[d]
          /\ text'[d] = text[d] /\ parser'[d] = parser[d] /\ reply'[d] = reply[d]
    BY <2>1, <2>2 DEF ReadInv, TextTypes
  <2>6. QED
    BY <2>3, <2>4, <2>5, FreshReads
<1>5. ASSUME NEW c \in Conns, OperationCompletes(c)
      PROVE  ReadInv'
  BY <1>5, ReadsLeftAlone DEF OperationCompletes
<1>6. ASSUME NEW c \in Conns, HandleRead(c)
      PROVE  ReadInv'
  BY <1>6, DestroyReads, PieceReads DEF HandleRead, StopConnection
<1>7. ASSUME NEW c \in Conns, HandleWrite(c)
      PROVE  ReadInv'
  BY <1>7, DestroyReads DEF HandleWrite, StopConnection
<1>8. QED
  BY <1>1, <1>2, <1>3, <1>4, <1>5, <1>6, <1>7 DEF Next

\* However a text is cut into pieces, connection::handle_read answers it with what was asked
\* for if request_parser takes it as a request in one piece, and else refuses it.
THEOREM TextsAreRead == Spec /\ KnownInOnePiece => []RequestsAreRead
<1> SUFFICES ASSUME KnownInOnePiece PROVE Spec => []RequestsAreRead
  OBVIOUS
<1>1. ReadInv => RequestsAreRead
  <2> SUFFICES ASSUME ReadInv, NEW c \in Conns, operation[c] = "write"
               PROVE  reply[c].request # Null <=> text[c] \in WellFormed
    BY DEF RequestsAreRead
  <2> DEFINE t == text[c]
  <2>1. PICK k \in 0 .. Len(t) : parser[c] = ParsePiece(NewParser, SubSeq(t, 1, k))
    BY DEF ReadInv, ParsedInPieces, Consumed
  <2>2. /\ t \in Seq(Characters) /\ parser[c] \in Parsers /\ parser[c].state \in {"good", "bad"}
        /\ reply[c].request # Null <=> parser[c].state = "good"
        /\ t \in Texts \/ t = <<>>
    BY DEF ReadInv, TextTypes, AnswersTheParser, TextsAreSent
  <2> HIDE DEF t
  <2>3. ParsePiece(NewParser, t) = parser[c]
    <3>1. \A S : \A q \in Seq(S) : \A i \in 0 .. Len(q) :
            /\ i \in Nat /\ Len(q) - i \in Nat /\ i + (Len(q) - i) = Len(q) /\ i + (Len(q) - i) <= Len(q)
            /\ SubSeq(q, i + 1, Len(q)) \in Seq(S) /\ SubSeq(q, 1, Len(q)) = q
      OBVIOUS
    <3>2. ParsePiece(ParsePiece(NewParser, SubSeq(t, 1, k)), SubSeq(t, k + 1, Len(t)))
            = ParsePiece(NewParser, SubSeq(t, 1, Len(t)))
      <4>1. /\ k \in Nat /\ Len(t) - k \in Nat /\ k + (Len(t) - k) = Len(t) /\ k + (Len(t) - k) <= Len(t)
        BY <2>2, <3>1
      <4>2. QED
        BY <2>2, <4>1, PiecesJoin, NewParserIs
    <3>3. SubSeq(t, k + 1, Len(t)) \in Seq(Characters) /\ SubSeq(t, 1, Len(t)) = t
      BY <2>2, <3>1
    <3>4. QED
      BY <2>1, <2>2, <3>2, <3>3, PieceType
  <2>4. t # <<>>
    BY <2>2, <2>3, PieceOfNone, NewParserIs
  <2>5. t \in WellFormed <=> parser[c].state = "good"
    BY <2>2, <2>3, <2>4 DEF KnownInOnePiece
  <2>6. QED
    BY <2>2, <2>5 DEF t
<1>2. QED
  BY <1>1, InitConnectionsInv, ServerKeeps, InitReads, StepReads, PTL DEF Spec

-----------------------------------------------------------------------------
(* The timeline: what the CPLs become, and where a frame is in it.         *)

\* f[i] is the number of frames of the pictures among the first i assets.
SumsTo(f, reel, n) ==
  f = [i \in 0 .. n |-> IF i = 0 THEN 0 ELSE LongerBy(f[i - 1], reel[i])]

LEMMA SumsExists ==
  ASSUME NEW reel, NEW n \in Nat
  PROVE  \E f : SumsTo(f, reel, n)
<1> DEFINE base == 0
           Step(x, i) == LongerBy(x, reel[i])
           Holds == {k \in Nat : \E f : f = [i \in 0 .. k |-> IF i = 0 THEN base ELSE Step(f[i - 1], i)]}
<1> HIDE DEF base, Step
<1>1. 0 \in Holds
  <2> DEFINE f == [i \in 0 .. 0 |-> base]
  <2>1. f = [i \in 0 .. 0 |-> IF i = 0 THEN base ELSE Step(f[i - 1], i)]
    OBVIOUS
  <2>2. QED
    BY <2>1
<1>2. ASSUME NEW k \in Nat, k < n, k \in Holds
      PROVE  k + 1 \in Holds
  <2>1. PICK f : f = [i \in 0 .. k |-> IF i = 0 THEN base ELSE Step(f[i - 1], i)]
    BY <1>2
  <2> DEFINE g == [i \in 0 .. k + 1 |-> IF i = 0 THEN base ELSE Step(f[i - 1], i)]
             h == [i \in 0 .. k + 1 |-> IF i = 0 THEN base ELSE Step(g[i - 1], i)]
  <2>2. \A i \in 0 .. k : g[i] = f[i]
    BY <2>1
  <2>3. \A i \in 0 .. k + 1 : g[i] = h[i]
    <3>1. \A i \in 0 .. k + 1 : i # 0 => i - 1 \in 0 .. k
      OBVIOUS
    <3>2. QED
      BY <2>2, <3>1
  <2>4. g = h
    BY <2>3
  <2> HIDE DEF g
  <2>5. QED
    BY <2>4
<1>3. 0 .. n \subseteq Holds
  <2>1. Holds \in SUBSET Nat
    OBVIOUS
  <2> HIDE DEF Holds
  <2>2. QED
    BY <1>1, <1>2, <2>1, FromZero
<1>4. QED
  BY <1>3 DEF SumsTo, base, Step

LEMMA SumsSteps ==
  ASSUME NEW reel, NEW n \in Nat, NEW f, SumsTo(f, reel, n)
  PROVE  /\ f[0] = 0
         /\ \A k \in Nat : k < n => f[k + 1] = LongerBy(f[k], reel[k + 1])
<1> DEFINE base == 0
           Step(x, i) == LongerBy(x, reel[i])
<1>1. f = [i \in 0 .. n |-> IF i = 0 THEN base ELSE Step(f[i - 1], i)]
  BY DEF SumsTo
<1> HIDE DEF base, Step
<1>2. f[0] = base
  BY <1>1
<1>3. ASSUME NEW k \in Nat, k < n
      PROVE  f[k + 1] = Step(f[k], k + 1)
  <2>1. k + 1 \in 0 .. n /\ k + 1 # 0 /\ (k + 1) - 1 = k
    BY <1>3
  <2>2. f[k + 1] = Step(f[(k + 1) - 1], k + 1)
    BY <1>1, <2>1
  <2>3. QED
    BY <2>1, <2>2
<1>4. QED
  BY <1>2, <1>3 DEF base, Step

\* f[i] is the show with the first i reels added.
AddsTo(f, s, reels, n) ==
  f = [i \in 0 .. n |-> IF i = 0 THEN s ELSE AddReel(f[i - 1], reels[i])]

LEMMA AddsExists ==
  ASSUME NEW s, NEW reels, NEW n \in Nat
  PROVE  \E f : AddsTo(f, s, reels, n)
<1> DEFINE base == s
           Step(x, i) == AddReel(x, reels[i])
           Holds == {k \in Nat : \E f : f = [i \in 0 .. k |-> IF i = 0 THEN base ELSE Step(f[i - 1], i)]}
<1> HIDE DEF base, Step
<1>1. 0 \in Holds
  <2> DEFINE f == [i \in 0 .. 0 |-> base]
  <2>1. f = [i \in 0 .. 0 |-> IF i = 0 THEN base ELSE Step(f[i - 1], i)]
    OBVIOUS
  <2>2. QED
    BY <2>1
<1>2. ASSUME NEW k \in Nat, k < n, k \in Holds
      PROVE  k + 1 \in Holds
  <2>1. PICK f : f = [i \in 0 .. k |-> IF i = 0 THEN base ELSE Step(f[i - 1], i)]
    BY <1>2
  <2> DEFINE g == [i \in 0 .. k + 1 |-> IF i = 0 THEN base ELSE Step(f[i - 1], i)]
             h == [i \in 0 .. k + 1 |-> IF i = 0 THEN base ELSE Step(g[i - 1], i)]
  <2>2. \A i \in 0 .. k : g[i] = f[i]
    BY <2>1
  <2>3. \A i \in 0 .. k + 1 : g[i] = h[i]
    <3>1. \A i \in 0 .. k + 1 : i # 0 => i - 1 \in 0 .. k
      OBVIOUS
    <3>2. QED
      BY <2>2, <3>1
  <2>4. g = h
    BY <2>3
  <2> HIDE DEF g
  <2>5. QED
    BY <2>4
<1>3. 0 .. n \subseteq Holds
  <2>1. Holds \in SUBSET Nat
    OBVIOUS
  <2> HIDE DEF Holds
  <2>2. QED
    BY <1>1, <1>2, <2>1, FromZero
<1>4. QED
  BY <1>3 DEF AddsTo, base, Step

LEMMA AddsSteps ==
  ASSUME NEW s, NEW reels, NEW n \in Nat, NEW f, AddsTo(f, s, reels, n)
  PROVE  /\ f[0] = s
         /\ \A k \in Nat : k < n => f[k + 1] = AddReel(f[k], reels[k + 1])
<1> DEFINE base == s
           Step(x, i) == AddReel(x, reels[i])
<1>1. f = [i \in 0 .. n |-> IF i = 0 THEN base ELSE Step(f[i - 1], i)]
  BY DEF AddsTo
<1> HIDE DEF base, Step
<1>2. f[0] = base
  BY <1>1
<1>3. ASSUME NEW k \in Nat, k < n
      PROVE  f[k + 1] = Step(f[k], k + 1)
  <2>1. k + 1 \in 0 .. n /\ k + 1 # 0 /\ (k + 1) - 1 = k
    BY <1>3
  <2>2. f[k + 1] = Step(f[(k + 1) - 1], k + 1)
    BY <1>1, <2>1
  <2>3. QED
    BY <2>1, <2>2
<1>4. QED
  BY <1>2, <1>3 DEF base, Step

\* f[i] is the show of the first i files.
LoadsTo(f, files, n) ==
  f = [i \in 0 .. n |-> IF i = 0 THEN EmptyShow ELSE AddFile(f[i - 1], files[i])]

LEMMA LoadsExists ==
  ASSUME NEW files, NEW n \in Nat
  PROVE  \E f : LoadsTo(f, files, n)
<1> DEFINE base == EmptyShow
           Step(x, i) == AddFile(x, files[i])
           Holds == {k \in Nat : \E f : f = [i \in 0 .. k |-> IF i = 0 THEN base ELSE Step(f[i - 1], i)]}
<1> HIDE DEF base, Step
<1>1. 0 \in Holds
  <2> DEFINE f == [i \in 0 .. 0 |-> base]
  <2>1. f = [i \in 0 .. 0 |-> IF i = 0 THEN base ELSE Step(f[i - 1], i)]
    OBVIOUS
  <2>2. QED
    BY <2>1
<1>2. ASSUME NEW k \in Nat, k < n, k \in Holds
      PROVE  k + 1 \in Holds
  <2>1. PICK f : f = [i \in 0 .. k |-> IF i = 0 THEN base ELSE Step(f[i - 1], i)]
    BY <1>2
  <2> DEFINE g == [i \in 0 .. k + 1 |-> IF i = 0 THEN base ELSE Step(f[i - 1], i)]
             h == [i \in 0 .. k + 1 |-> IF i = 0 THEN base ELSE Step(g[i - 1], i)]
  <2>2. \A i \in 0 .. k : g[i] = f[i]
    BY <2>1
  <2>3. \A i \in 0 .. k + 1 : g[i] = h[i]
    <3>1. \A i \in 0 .. k + 1 : i # 0 => i - 1 \in 0 .. k
      OBVIOUS
    <3>2. QED
      BY <2>2, <3>1
  <2>4. g = h
    BY <2>3
  <2> HIDE DEF g
  <2>5. QED
    BY <2>4
<1>3. 0 .. n \subseteq Holds
  <2>1. Holds \in SUBSET Nat
    OBVIOUS
  <2> HIDE DEF Holds
  <2>2. QED
    BY <1>1, <1>2, <2>1, FromZero
<1>4. QED
  BY <1>3 DEF LoadsTo, base, Step

LEMMA LoadsSteps ==
  ASSUME NEW files, NEW n \in Nat, NEW f, LoadsTo(f, files, n)
  PROVE  /\ f[0] = EmptyShow
         /\ \A k \in Nat : k < n => f[k + 1] = AddFile(f[k], files[k + 1])
<1> DEFINE base == EmptyShow
           Step(x, i) == AddFile(x, files[i])
<1>1. f = [i \in 0 .. n |-> IF i = 0 THEN base ELSE Step(f[i - 1], i)]
  BY DEF LoadsTo
<1> HIDE DEF base, Step
<1>2. f[0] = base
  BY <1>1
<1>3. ASSUME NEW k \in Nat, k < n
      PROVE  f[k + 1] = Step(f[k], k + 1)
  <2>1. k + 1 \in 0 .. n /\ k + 1 # 0 /\ (k + 1) - 1 = k
    BY <1>3
  <2>2. f[k + 1] = Step(f[(k + 1) - 1], k + 1)
    BY <1>1, <2>1
  <2>3. QED
    BY <2>1, <2>2
<1>4. QED
  BY <1>2, <1>3 DEF base, Step

-----------------------------------------------------------------------------
\* The reels follow each other, each as long as its picture: reel r shows the frames
\* from ends[r - 1] on, up to the one before ends[r].
Follow(s, ends) ==
  /\ ends \in [0 .. Len(s.reels) -> Nat] /\ ends[0] = 0 /\ ends[Len(s.reels)] = s.frames
  /\ \A r \in 1 .. Len(s.reels) :
       /\ HasOnePicture(s.reels[r])
       /\ \A i \in DOMAIN s.reels[r] :
            /\ s.reels[r][i].startFrame = ends[r - 1]
            /\ s.reels[r][i].type = "MainPicture" => ends[r] = ends[r - 1] + s.reels[r][i].duration

Timeline(s) == s \in Shows /\ \E ends : Follow(s, ends)

LEMMA StartingAtIs ==
  ASSUME NEW a, NEW n
  PROVE  /\ StartingAt(a, n).type = a.type /\ StartingAt(a, n).id = a.id
         /\ StartingAt(a, n).fps = a.fps /\ StartingAt(a, n).coding = a.coding
         /\ StartingAt(a, n).duration = a.duration /\ StartingAt(a, n).path = a.path
         /\ StartingAt(a, n).startFrame = n
BY DEF StartingAt

LEMMA StartingAtType == \A a \in Mapped : \A n \in Nat : StartingAt(a, n) \in Timed
BY DEF StartingAt, Timed

LEMMA TimelineType ==
  \A s : Timeline(s) => s.reels \in Seq(Seq(Timed)) /\ s.frames \in Nat /\ s \in Shows
BY DEF Timeline, Shows

LEMMA ParseType ==
  ASSUME NEW f \in DOMAIN CPL
  PROVE  Parse(f) \in Seq(Seq(Mapped)) /\ DOMAIN Parse(f) = DOMAIN CPL[f]
<1>1. CPL[f] \in Seq(Seq(Elements))
  BY ShowAssumption
<1> DEFINE reels == CPL[f]
           M(a) == MapAsset(a)
           mapped == {M(a) : a \in Elements}
           parsed == [k \in DOMAIN reels |-> [a \in DOMAIN reels[k] |-> M(reels[k][a])]]
<1>2. Parse(f) = parsed /\ Mapped = mapped
  BY DEF Parse, Mapped
<1> HIDE DEF M
<1>3. \A k \in DOMAIN reels : reels[k] \in Seq(Elements)
  BY <1>1
<1>4. \A k \in DOMAIN reels : parsed[k] \in Seq(mapped)
  <2>1. TAKE k \in DOMAIN reels
  <2>2. PICK reel \in Seq(Elements) : reel = reels[k]
    BY <1>3
  <2>3. [a \in DOMAIN reel |-> M(reel[a])] \in Seq(mapped)
    OBVIOUS
  <2>4. QED
    BY <2>2, <2>3
<1>5. parsed \in Seq(Seq(mapped)) /\ DOMAIN parsed = DOMAIN reels
  <2>1. PICK n \in Nat : DOMAIN reels = 1 .. n
    BY <1>1
  <2>2. parsed \in [1 .. n -> Seq(mapped)] /\ DOMAIN parsed = DOMAIN reels
    BY <1>4, <2>1
  <2>3. \A S : \A k \in Nat : \A q \in [1 .. k -> S] : q \in Seq(S)
    OBVIOUS
  <2> HIDE DEF parsed, mapped
  <2>4. QED
    BY <2>2, <2>3
<1>6. QED
  BY <1>2, <1>5

\* The picture of a reel is all that makes the show longer.
LEMMA PictureFramesIs ==
  ASSUME NEW reel \in Seq(Mapped), HasOnePicture(reel), NEW p \in DOMAIN reel,
         reel[p].type = "MainPicture"
  PROVE  PictureFrames(reel) = reel[p].duration /\ reel[p].duration \in Nat
<1>1. /\ Len(reel) \in Nat /\ DOMAIN reel = 1 .. Len(reel) /\ p \in 1 .. Len(reel)
      /\ reel[p].duration \in Nat
      /\ \A i \in 1 .. Len(reel) : reel[i].type = "MainPicture" <=> i = p
  BY DEF HasOnePicture
<1> DEFINE f == CHOOSE f : SumsTo(f, reel, Len(reel))
<1>2. SumsTo(f, reel, Len(reel))
  BY <1>1, SumsExists
<1>3. PictureFrames(reel) = f[Len(reel)]
  BY DEF PictureFrames, SumsTo
<1> HIDE DEF f
<1>4. f[0] = 0 /\ \A k \in Nat : k < Len(reel) => f[k + 1] = LongerBy(f[k], reel[k + 1])
  BY <1>1, <1>2, SumsSteps
<1> DEFINE Holds == {k \in Nat : f[k] = IF k < p THEN 0 ELSE reel[p].duration}
<1>5. 0 \in Holds
  BY <1>1, <1>4
<1>6. ASSUME NEW k \in Nat, k < Len(reel), k \in Holds
      PROVE  k + 1 \in Holds
  <2>1. f[k + 1] = IF k + 1 = p THEN f[k] + reel[p].duration ELSE f[k]
    <3>1. k + 1 \in 1 .. Len(reel) /\ (reel[k + 1].type = "MainPicture" <=> k + 1 = p)
      BY <1>1, <1>6
    <3>2. QED
      BY <1>4, <1>6, <3>1 DEF LongerBy
  <2>2. QED
    BY <1>1, <1>6, <2>1
<1>7. Holds \in SUBSET Nat
  OBVIOUS
<1>8. 0 .. Len(reel) \subseteq Holds
  <2> HIDE DEF Holds
  <2>1. QED
    BY <1>1, <1>5, <1>6, <1>7, FromZero
<1>9. QED
  BY <1>1, <1>3, <1>8

LEMMA AddReelKeeps ==
  ASSUME NEW s, Timeline(s), NEW reel \in Seq(Mapped), HasOnePicture(reel)
  PROVE  Timeline(AddReel(s, reel))
<1> DEFINE timed == [i \in DOMAIN reel |-> StartingAt(reel[i], s.frames)]
           t == AddReel(s, reel)
<1>1. PICK ends : Follow(s, ends)
  BY DEF Timeline
<1>2. PICK p \in DOMAIN reel : \A i \in DOMAIN reel : reel[i].type = "MainPicture" <=> i = p
  BY DEF HasOnePicture
<1>3. PictureFrames(reel) = reel[p].duration /\ reel[p].duration \in Nat
  BY <1>2, PictureFramesIs
<1>4. /\ timed \in Seq(Timed) /\ DOMAIN timed = DOMAIN reel
      /\ \A i \in DOMAIN reel : timed[i] = StartingAt(reel[i], s.frames)
  <2>1. \A i \in DOMAIN reel : StartingAt(reel[i], s.frames) \in Timed
    BY StartingAtType, TimelineType
  <2>2. QED
    BY <2>1
<1>5. HasOnePicture(timed)
  <2>1. \A i \in DOMAIN timed : /\ timed[i].type = reel[i].type /\ timed[i].fps = reel[i].fps
                                /\ timed[i].duration = reel[i].duration
    BY <1>4, StartingAtIs
  <2> HIDE DEF timed
  <2>2. \A i \in DOMAIN timed : timed[i].duration \in Nat /\ timed[i].fps \in 1 .. SampleRate
    BY <1>4, <2>1 DEF HasOnePicture
  <2>3. \A i \in DOMAIN timed : timed[i].type = "MainPicture" <=> i = p
    BY <1>2, <1>4, <2>1
  <2>4. QED
    BY <1>4, <2>2, <2>3 DEF HasOnePicture
<1>6. t.reels = Append(s.reels, timed) /\ t.frames = s.frames + reel[p].duration
  BY <1>3 DEF AddReel
<1>7. /\ t.reels \in Seq(Seq(Timed)) /\ Len(t.reels) = Len(s.reels) + 1 /\ Len(s.reels) \in Nat
      /\ \A r \in 1 .. Len(s.reels) : t.reels[r] = s.reels[r]
      /\ t.reels[Len(s.reels) + 1] = timed
  BY <1>4, <1>6, TimelineType
<1> HIDE DEF timed, t
<1> DEFINE n == Len(s.reels)
           later == [k \in 0 .. n + 1 |-> IF k = n + 1 THEN t.frames ELSE ends[k]]
<1>8. /\ later \in [0 .. n + 1 -> Nat] /\ later[0] = 0 /\ later[n + 1] = t.frames
      /\ later[n] = s.frames /\ t.frames \in Nat
      /\ \A r \in 1 .. n : later[r] = ends[r] /\ later[r - 1] = ends[r - 1]
  <2>1. s.frames \in Nat /\ t.frames \in Nat
    BY <1>3, <1>6, TimelineType
  <2>2. n \in Nat /\ ends \in [0 .. n -> Nat] /\ ends[0] = 0 /\ ends[n] = s.frames
    BY <1>1, <1>7 DEF Follow
  <2>3. QED
    BY <2>1, <2>2
<1> HIDE DEF later
<1>9. ASSUME NEW r \in 1 .. n + 1
      PROVE  /\ HasOnePicture(t.reels[r])
             /\ \A i \in DOMAIN t.reels[r] :
                  /\ t.reels[r][i].startFrame = later[r - 1]
                  /\ t.reels[r][i].type = "MainPicture" =>
                       later[r] = later[r - 1] + t.reels[r][i].duration
  <2>1. CASE r = n + 1
    <3>1. t.reels[r] = timed /\ later[r - 1] = s.frames /\ later[r] = s.frames + reel[p].duration
      BY <1>6, <1>7, <1>8, <2>1
    <3>2. \A i \in DOMAIN reel : timed[i].type = "MainPicture" => i = p /\ timed[i].duration = reel[p].duration
      BY <1>2, <1>4, StartingAtIs
    <3>3. \A i \in DOMAIN reel : timed[i].startFrame = s.frames
      BY <1>4, StartingAtIs
    <3>4. QED
      BY <1>4, <1>5, <3>1, <3>2, <3>3
  <2>2. CASE r \in 1 .. n
    <3>1. t.reels[r] = s.reels[r] /\ later[r] = ends[r] /\ later[r - 1] = ends[r - 1]
      BY <1>7, <1>8, <2>2
    <3>2. QED
      BY <1>1, <2>2, <3>1 DEF Follow
  <2>3. QED
    BY <1>7, <2>1, <2>2
<1>10. Follow(t, later)
  BY <1>7, <1>8, <1>9 DEF Follow
<1>11. Timeline(t)
  <2>1. t = [reels |-> t.reels, frames |-> t.frames]
    BY DEF t, AddReel
  <2>2. t \in Shows
    BY <1>7, <1>8, <2>1 DEF Shows
  <2>3. QED
    BY <1>10, <2>2 DEF Timeline
<1>12. QED
  BY <1>11 DEF t

LEMMA AddCPLKeeps ==
  ASSUME NEW s, Timeline(s), NEW f \in DOMAIN CPL, PicturesAreRegular
  PROVE  Timeline(AddCPLToEndOfTimeline(s, Parse(f)))
<1> DEFINE reels == Parse(f)
           g == CHOOSE g : AddsTo(g, s, reels, Len(reels))
<1>1. reels \in Seq(Seq(Mapped)) /\ DOMAIN reels = DOMAIN CPL[f]
  BY ParseType
<1>10. /\ Len(reels) \in Nat
       /\ \A r \in 1 .. Len(reels) : reels[r] \in Seq(Mapped) /\ HasOnePicture(reels[r])
  <2> HIDE DEF reels
  <2>1. Len(reels) \in Nat /\ DOMAIN reels = 1 .. Len(reels)
    BY <1>1
  <2>2. \A r \in 1 .. Len(reels) : reels[r] \in Seq(Mapped)
    BY <1>1, <2>1
  <2>3. \A r \in DOMAIN reels : HasOnePicture(reels[r])
    BY <1>1 DEF PicturesAreRegular, reels
  <2>4. QED
    BY <2>1, <2>2, <2>3
<1>11. Len(reels) \in Nat
  BY <1>10
<1>2. AddsTo(g, s, reels, Len(reels))
  BY <1>11, AddsExists
<1>3. AddCPLToEndOfTimeline(s, reels) = g[Len(reels)]
  BY DEF AddCPLToEndOfTimeline, AddsTo
<1> HIDE DEF g, reels
<1>4. g[0] = s /\ \A k \in Nat : k < Len(reels) => g[k + 1] = AddReel(g[k], reels[k + 1])
  BY <1>11, <1>2, AddsSteps
<1> DEFINE Holds == {k \in Nat : Timeline(g[k])}
<1>5. 0 \in Holds
  BY <1>4
<1>6. ASSUME NEW k \in Nat, k < Len(reels), k \in Holds
      PROVE  k + 1 \in Holds
  <2>1. k + 1 \in 1 .. Len(reels)
    BY <1>11, <1>6
  <2>2. QED
    BY <1>10, <1>4, <1>6, <2>1, AddReelKeeps
<1>7. Holds \in SUBSET Nat
  OBVIOUS
<1>8. 0 .. Len(reels) \subseteq Holds
  <2> HIDE DEF Holds
  <2>1. QED
    BY <1>11, <1>5, <1>6, <1>7, FromZero
<1>9. QED
  BY <1>11, <1>3, <1>8 DEF reels

LEMMA EmptyIsTimeline == Timeline(EmptyShow)
<1>1. EmptyShow.reels = <<>> /\ EmptyShow.frames = 0 /\ Len(<<>>) = 0
  BY DEF EmptyShow
<1>2. Follow(EmptyShow, [k \in 0 .. 0 |-> 0])
  BY <1>1 DEF Follow
<1>3. QED
  BY <1>2 DEF Timeline, EmptyShow, Shows

LEMMA ShowOfIs ==
  ASSUME NEW files, Len(files) \in Nat, PicturesAreRegular
  PROVE  Timeline(ShowOf(files))
<1> DEFINE g == CHOOSE g : LoadsTo(g, files, Len(files))
<1>2. LoadsTo(g, files, Len(files))
  BY LoadsExists
<1>3. ShowOf(files) = g[Len(files)]
  BY DEF ShowOf, LoadsTo
<1> HIDE DEF g
<1>4. g[0] = EmptyShow /\ \A k \in Nat : k < Len(files) => g[k + 1] = AddFile(g[k], files[k + 1])
  BY <1>2, LoadsSteps
<1> DEFINE Holds == {k \in Nat : Timeline(g[k])}
<1>5. 0 \in Holds
  BY <1>4, EmptyIsTimeline
<1>6. ASSUME NEW k \in Nat, k < Len(files), k \in Holds
      PROVE  k + 1 \in Holds
  BY <1>4, <1>6, AddCPLKeeps DEF AddFile, IsFileCPL
<1>7. Holds \in SUBSET Nat
  OBVIOUS
<1>8. 0 .. Len(files) \subseteq Holds
  <2> HIDE DEF Holds
  <2>1. QED
    BY <1>5, <1>6, <1>7, FromZero
<1>9. QED
  BY <1>3, <1>8

\* The reels do not go back.
LEMMA ReelsAscend ==
  ASSUME NEW s, Timeline(s), NEW ends, Follow(s, ends),
         NEW j \in 0 .. Len(s.reels), NEW i \in 0 .. j
  PROVE  ends[i] <= ends[j] /\ ends[i] \in Nat /\ ends[j] \in Nat
<1>1. Len(s.reels) \in Nat /\ ends \in [0 .. Len(s.reels) -> Nat] /\ j \in Nat /\ i \in Nat
  BY DEF Timeline, Follow
<1> DEFINE Holds == {k \in Nat : i <= k => ends[i] <= ends[k]}
<1>2. 0 \in Holds
  BY <1>1
<1>3. ASSUME NEW k \in Nat, k < j, k \in Holds
      PROVE  k + 1 \in Holds
  <2>1. k + 1 \in 1 .. Len(s.reels) /\ (k + 1) - 1 = k /\ k \in 0 .. Len(s.reels)
    BY <1>1, <1>3
  <2>2. ends[k] <= ends[k + 1] /\ ends[k + 1] \in Nat /\ ends[k] \in Nat /\ ends[i] \in Nat
    <3>1. HasOnePicture(s.reels[k + 1])
      BY <2>1 DEF Follow
    <3>2. PICK p \in DOMAIN s.reels[k + 1] : s.reels[k + 1][p].type = "MainPicture"
      BY <3>1 DEF HasOnePicture
    <3>3. s.reels[k + 1][p].duration \in Nat
      BY <3>1 DEF HasOnePicture
    <3>4. ends[k + 1] = ends[k] + s.reels[k + 1][p].duration
      <4>1. ends[k + 1] = ends[(k + 1) - 1] + s.reels[k + 1][p].duration
        BY <2>1, <3>2 DEF Follow
      <4>2. QED
        BY <2>1, <4>1
    <3>5. ends[k] \in Nat /\ ends[k + 1] \in Nat /\ ends[i] \in Nat
      BY ONLY <1>1, <2>1
    <3>6. ends[k] <= ends[k + 1]
      BY ONLY <3>3, <3>4, <3>5
    <3>7. QED
      BY ONLY <3>5, <3>6
  <2>3. QED
    BY <1>1, <1>3, <2>2
<1>4. Holds \in SUBSET Nat
  OBVIOUS
<1>5. 0 .. j \subseteq Holds
  <2> HIDE DEF Holds
  <2>1. QED
    BY <1>1, <1>2, <1>3, <1>4, FromZero
<1>6. QED
  BY <1>1, <1>5

\* Every frame is in a reel.
LEMMA InSomeReel ==
  ASSUME NEW s, Timeline(s), NEW ends, Follow(s, ends), NEW f \in Nat, f < s.frames
  PROVE  \E r \in 1 .. Len(s.reels) : ends[r - 1] <= f /\ f < ends[r]
<1>1. /\ Len(s.reels) \in Nat /\ ends \in [0 .. Len(s.reels) -> Nat]
      /\ ends[0] = 0 /\ ends[Len(s.reels)] = s.frames
  BY DEF Timeline, Follow
<1> DEFINE behind == {r \in 0 .. Len(s.reels) : f < ends[r]}
<1>2. behind \in SUBSET Nat /\ behind # {}
  BY <1>1
<1>3. PICK r \in behind : \A k \in behind : r <= k
  BY <1>2, LeastNatural
<1>4. r \in 1 .. Len(s.reels) /\ r - 1 \in 0 .. Len(s.reels) /\ r - 1 \notin behind
  BY <1>1, <1>3
<1>5. ends[r - 1] <= f
  BY <1>1, <1>4
<1>6. QED
  BY <1>3, <1>4, <1>5

LEMMA OneReel ==
  ASSUME NEW s, Timeline(s), NEW ends, Follow(s, ends), NEW f \in Nat,
         NEW q \in 1 .. Len(s.reels), ends[q - 1] <= f, f < ends[q],
         NEW r \in 1 .. Len(s.reels), ends[r - 1] <= f, f < ends[r]
  PROVE  q = r
<1>1. \A i, j \in 1 .. Len(s.reels) : ends[j - 1] <= f /\ f < ends[i] => ~(i < j)
  <2>1. TAKE i, j \in 1 .. Len(s.reels)
  <2>2. HAVE ends[j - 1] <= f /\ f < ends[i]
  <2>3. SUFFICES ASSUME i < j PROVE FALSE
    OBVIOUS
  <2>4. Len(s.reels) \in Nat
    BY TimelineType
  <2>5. i \in 0 .. j - 1 /\ j - 1 \in 0 .. Len(s.reels)
    BY <2>3, <2>4
  <2>6. ends[i] <= ends[j - 1] /\ ends[i] \in Nat /\ ends[j - 1] \in Nat
    BY <2>5, ReelsAscend
  <2>7. QED
    BY <2>2, <2>6
<1>2. ~(q < r) /\ ~(r < q)
  BY <1>1
<1>3. q \in Nat /\ r \in Nat
  OBVIOUS
<1>4. QED
  BY <1>2, <1>3

LEMMA PlacesAre ==
  ASSUME NEW s, s.reels \in Seq(Seq(Timed))
  PROVE  /\ \A p \in Places(s) : /\ p = <<p[1], p[2]>> /\ p[1] \in 1 .. Len(s.reels)
                                 /\ p[2] \in DOMAIN s.reels[p[1]] /\ p[1] \in Nat /\ p[2] \in Nat
                                 /\ AssetIn(s, p) = s.reels[p[1]][p[2]]
         /\ \A r \in 1 .. Len(s.reels) : \A i \in DOMAIN s.reels[r] :
              /\ <<r, i>> \in Places(s) /\ AssetIn(s, <<r, i>>) = s.reels[r][i]
<1>1. /\ DOMAIN s.reels = 1 .. Len(s.reels) /\ Len(s.reels) \in Nat
      /\ \A r \in 1 .. Len(s.reels) : \A i \in DOMAIN s.reels[r] : i \in Nat
  OBVIOUS
<1>2. \A p \in Places(s) : \E r \in 1 .. Len(s.reels) : p \in {r} \X DOMAIN s.reels[r]
  BY <1>1 DEF Places
<1>3. \A p \in Places(s) : /\ p = <<p[1], p[2]>> /\ p[1] \in 1 .. Len(s.reels)
                           /\ p[2] \in DOMAIN s.reels[p[1]] /\ p[1] \in Nat /\ p[2] \in Nat
  BY <1>1, <1>2
<1>4. \A r \in 1 .. Len(s.reels) : \A i \in DOMAIN s.reels[r] : <<r, i>> \in Places(s)
  BY <1>1 DEF Places
<1>5. QED
  BY <1>3, <1>4 DEF AssetIn

\* Of places there is a first.
LEMMA FirstOfIs ==
  ASSUME NEW P, P # {}, \A p \in P : p[1] \in Nat /\ p[2] \in Nat
  PROVE  FirstOf(P) \in P /\ \A q \in P : Before(FirstOf(P), q)
<1> DEFINE reels == {p[1] : p \in P}
<1>1. reels \in SUBSET Nat /\ reels # {}
  OBVIOUS
<1>2. PICK r \in reels : \A k \in reels : r <= k
  BY <1>1, LeastNatural
<1> DEFINE here == {p \in P : p[1] = r}
           assets == {p[2] : p \in here}
<1>3. assets \in SUBSET Nat /\ assets # {}
  BY <1>2
<1>4. PICK i \in assets : \A k \in assets : i <= k
  BY <1>3, LeastNatural
<1>5. PICK p \in P : p[1] = r /\ p[2] = i
  BY <1>4
<1>6. \A q \in P : Before(p, q)
  <2>1. TAKE q \in P
  <2>2. p[1] <= q[1] /\ q[1] \in Nat /\ p[1] \in Nat /\ (p[1] = q[1] => p[2] <= q[2])
    BY <1>2, <1>4, <1>5
  <2>3. QED
    BY <2>2 DEF Before
<1>7. QED
  BY <1>6 DEF FirstOf

LEMMA LastOfOne == \A p : p[1] \in Nat /\ p[2] \in Nat => LastOf({p}) = p
<1>1. TAKE p
<1>2. p[1] \in Nat /\ p[2] \in Nat => Before(p, p)
  BY DEF Before
<1>3. QED
  BY <1>2 DEF LastOf

\* What is found at a frame, and what its information is.
LEMMA PicturesAt ==
  ASSUME NEW s, Timeline(s), NEW ends, Follow(s, ends), NEW f \in Nat,
         NEW p \in PlacesAt(s, f, "MainPicture")
  PROVE  /\ p \in Places(s) /\ p = <<p[1], p[2]>> /\ p[1] \in 1 .. Len(s.reels) /\ p[1] \in Nat /\ p[2] \in Nat
         /\ p[2] \in DOMAIN s.reels[p[1]] /\ s.reels[p[1]][p[2]].type = "MainPicture"
         /\ AssetIn(s, p) = s.reels[p[1]][p[2]]
         /\ AssetIn(s, p).duration \in Nat /\ AssetIn(s, p).fps \in 1 .. SampleRate
         /\ ends[p[1] - 1] \in Nat /\ ends[p[1]] = ends[p[1] - 1] + AssetIn(s, p).duration
         /\ ends[p[1] - 1] <= f
         /\ AssetIn(s, p).duration # 0 => f < ends[p[1]]
         /\ AssetIn(s, p).duration = 0 => f = 0
         /\ \A q \in PlacesAt(s, f, "MainPicture") : q[1] = p[1] => q = p
<1>1. \A q \in PlacesAt(s, f, "MainPicture") :
        q \in Places(s) /\ AssetIn(s, q).type = "MainPicture" /\ Covers(AssetIn(s, q), f)
  BY DEF PlacesAt, PlacesOf
<1>2. \A q \in PlacesAt(s, f, "MainPicture") :
        /\ q = <<q[1], q[2]>> /\ q[1] \in 1 .. Len(s.reels) /\ q[1] \in Nat /\ q[2] \in Nat
        /\ q[2] \in DOMAIN s.reels[q[1]] /\ s.reels[q[1]][q[2]].type = "MainPicture"
        /\ AssetIn(s, q) = s.reels[q[1]][q[2]]
  BY <1>1, PlacesAre, TimelineType
<1>3. \A r \in 1 .. Len(s.reels) : HasOnePicture(s.reels[r])
  BY DEF Follow
<1>4. \A q \in PlacesAt(s, f, "MainPicture") : q[1] = p[1] => q = p
  <2>1. TAKE q \in PlacesAt(s, f, "MainPicture")
  <2>2. HAVE q[1] = p[1]
  <2>3. q[2] = p[2]
    BY <1>2, <1>3, <2>2 DEF HasOnePicture
  <2>4. QED
    BY <1>2, <2>2, <2>3
<1>5. /\ s.reels[p[1]][p[2]].duration \in Nat
      /\ s.reels[p[1]][p[2]].fps \in 1 .. SampleRate
  BY <1>2, <1>3 DEF HasOnePicture
<1>6. /\ s.reels[p[1]][p[2]].startFrame = ends[p[1] - 1]
      /\ ends[p[1]] = ends[p[1] - 1] + s.reels[p[1]][p[2]].duration
  BY <1>2 DEF Follow
<1>7. ends[p[1] - 1] \in Nat
  BY <1>2 DEF Follow
<1>8. ends[p[1] - 1] <= f /\ (AssetIn(s, p).duration # 0 => f < ends[p[1]])
      /\ (AssetIn(s, p).duration = 0 => f = 0)
  <2>1. Covers(AssetIn(s, p), f)
    BY <1>1
  <2>2. /\ AssetIn(s, p).startFrame = ends[p[1] - 1] /\ AssetIn(s, p).duration \in Nat
        /\ ends[p[1]] = ends[p[1] - 1] + AssetIn(s, p).duration
    BY <1>2, <1>5, <1>6
  <2>3. QED
    BY <1>7, <2>1, <2>2 DEF Covers, EndFrame
<1>9. QED
  BY <1>1, <1>2, <1>4, <1>5, <1>6, <1>7, <1>8

LEMMA FrameInfoIs ==
  ASSUME NEW s, Timeline(s), NEW f \in Nat
  PROVE  /\ FrameInfo(s, f).found <=> PlacesAt(s, f, "MainPicture") # {}
         /\ FrameInfo(s, f).found =>
              LET p == FirstOf(PlacesAt(s, f, "MainPicture"))
              IN  /\ p \in PlacesAt(s, f, "MainPicture")
                  /\ FrameInfo(s, f).duration = SampleRate \div AssetIn(s, p).fps
                  /\ FrameInfo(s, f).rate = <<AssetIn(s, p).fps, 1>>
                  /\ FrameInfo(s, f).picture = AssetIn(s, p).id
<1> DEFINE shown == PlacesAt(s, f, "MainPicture")
           p == FirstOf(shown)
<1>1. PICK ends : Follow(s, ends)
  BY DEF Timeline
<1>2. CASE shown = {}
  BY <1>2 DEF FrameInfo, NoFrameInfo
<1>3. CASE shown # {}
  <2>1. \A q \in shown : q[1] \in Nat /\ q[2] \in Nat
    BY <1>1, PicturesAt
  <2>2. p \in shown
    <3> HIDE DEF shown
    <3>1. QED
      BY <1>3, <2>1, FirstOfIs
  <2>3. \A q \in shown : q[1] = p[1] => q = p
    BY <1>1, <2>2, PicturesAt
  <2>4. {q \in shown : q[1] = p[1]} = {p}
    BY <2>2, <2>3
  <2>5. LastOf({q \in shown : q[1] = p[1]}) = p
    BY <2>1, <2>2, <2>4, LastOfOne
  <2>6. /\ FrameInfo(s, f).found
        /\ FrameInfo(s, f).duration
             = SampleRate \div AssetIn(s, LastOf({q \in shown : q[1] = p[1]})).fps
        /\ FrameInfo(s, f).rate = <<AssetIn(s, LastOf({q \in shown : q[1] = p[1]})).fps, 1>>
        /\ FrameInfo(s, f).picture = AssetIn(s, LastOf({q \in shown : q[1] = p[1]})).id
    BY <1>3 DEF FrameInfo
  <2>7. QED
    BY <1>3, <2>2, <2>5, <2>6
<1>4. QED
  BY <1>2, <1>3

\* No frame lasts longer than the longest, and none is empty.
LEMMA QuotientIs == \A n \in Nat : \A d \in 1 .. n : n \div d \in 1 .. n
OBVIOUS

LEMMA LongestIs ==
  ASSUME NEW s, Timeline(s), NEW p \in Places(s)
  PROVE  SampleRate \div AssetIn(s, p).fps \in 1 .. LongestFrameLength(s)
<1> DEFINE Length(q) == SampleRate \div AssetIn(s, q).fps
           lengths == {1} \union {Length(q) : q \in Places(s)}
<1>1. PICK ends : Follow(s, ends)
  BY DEF Timeline
<1>2. SampleRate \in Nat
  BY ShowAssumption
<1>3. \A q \in Places(s) : AssetIn(s, q).fps \in 1 .. SampleRate
  <2>1. TAKE q \in Places(s)
  <2>2. q[1] \in 1 .. Len(s.reels) /\ q[2] \in DOMAIN s.reels[q[1]] /\ AssetIn(s, q) = s.reels[q[1]][q[2]]
    BY PlacesAre, TimelineType
  <2>3. QED
    BY <1>1, <2>2 DEF Follow, HasOnePicture
<1>4. \A q \in Places(s) : Length(q) \in 1 .. SampleRate
  BY <1>2, <1>3, QuotientIs
<1> HIDE DEF Length
<1>5. 1 <= SampleRate
  BY <1>2, <1>4
<1>6. lengths \subseteq 1 .. SampleRate /\ lengths # {}
  BY <1>2, <1>4, <1>5
<1> HIDE DEF lengths
<1> DEFINE below == {SampleRate - x : x \in lengths}
<1>7. below \in SUBSET Nat /\ below # {}
  BY <1>2, <1>6
<1>8. PICK n \in below : \A k \in below : n <= k
  BY <1>7, LeastNatural
<1>9. PICK most \in lengths : n = SampleRate - most
  BY <1>8
<1>10. \A x \in lengths : most >= x
  <2>1. TAKE x \in lengths
  <2>2. SampleRate - x \in below
    OBVIOUS
  <2>3. n <= SampleRate - x /\ x \in 1 .. SampleRate /\ most \in 1 .. SampleRate
    BY <1>6, <1>8, <2>2
  <2>4. QED
    BY <1>2, <1>9, <2>3
<1>11. Max(lengths) \in lengths /\ \A x \in lengths : Max(lengths) >= x
  BY <1>10 DEF Max
<1>12. LongestFrameLength(s) = Max(lengths)
  BY DEF LongestFrameLength, lengths, Length
<1>13. Length(p) \in lengths
  BY DEF lengths
<1>14. Length(p) \in 1 .. LongestFrameLength(s)
  BY <1>2, <1>4, <1>11, <1>12, <1>13
<1>15. QED
  BY <1>14 DEF Length

\* What EveryFrameIsShown says of a show: which picture a frame is told, ...
IsTold(s, f, p) ==
  \/ Tells(FrameInfo(s, f), AssetIn(s, p))
  \/ f = 0 /\ \E q \in PlacesAt(s, f, "MainPicture") :
                AssetIn(s, q).duration = 0 /\ Tells(FrameInfo(s, f), AssetIn(s, q))

\* ... and the whole of it.
LEMMA TimelineIsShown ==
  ASSUME NEW s, Timeline(s), s.frames # 0
  PROVE  /\ ~FrameInfo(s, s.frames).found
         /\ \A f \in 0 .. s.frames - 1 :
              /\ FrameInfo(s, f).found
              /\ FrameInfo(s, f).duration \in 1..LongestFrameLength(s)
              /\ \E p \in PlacesAt(s, f, "MainPicture") :
                   /\ {q \in PlacesAt(s, f, "MainPicture") : AssetIn(s, q).duration > 0} = {p}
                   /\ IsTold(s, f, p)
<1>1. PICK ends : Follow(s, ends)
  BY DEF Timeline
<1>2. s.frames \in Nat /\ Len(s.reels) \in Nat /\ ends[Len(s.reels)] = s.frames
  BY <1>1 DEF Timeline, Follow
<1>3. PlacesAt(s, s.frames, "MainPicture") = {}
  <2>1. SUFFICES ASSUME NEW p \in PlacesAt(s, s.frames, "MainPicture") PROVE FALSE
    OBVIOUS
  <2>2. p[1] \in 0 .. Len(s.reels) /\ Len(s.reels) \in 0 .. Len(s.reels)
    BY <1>1, <1>2, <2>1, PicturesAt
  <2>3. ends[p[1]] <= s.frames /\ ends[p[1]] \in Nat
    BY <1>1, <1>2, <2>2, ReelsAscend
  <2>4. AssetIn(s, p).duration = 0 /\ s.frames = 0
    BY <1>1, <1>2, <2>1, <2>3, PicturesAt
  <2>5. QED
    BY <2>4
<1>4. ~FrameInfo(s, s.frames).found
  BY <1>2, <1>3, FrameInfoIs
<1>5. ASSUME NEW f \in 0 .. s.frames - 1
      PROVE  /\ FrameInfo(s, f).found
             /\ FrameInfo(s, f).duration \in 1..LongestFrameLength(s)
             /\ \E p \in PlacesAt(s, f, "MainPicture") :
                  /\ {q \in PlacesAt(s, f, "MainPicture") : AssetIn(s, q).duration > 0} = {p}
                  /\ IsTold(s, f, p)
  <2>1. f \in Nat /\ f < s.frames
    BY <1>2
  <2>2. PICK r \in 1 .. Len(s.reels) : ends[r - 1] <= f /\ f < ends[r]
    BY <1>1, <2>1, InSomeReel
  <2>3. PICK i \in DOMAIN s.reels[r] : s.reels[r][i].type = "MainPicture"
    BY <1>1 DEF Follow, HasOnePicture
  <2> DEFINE p == <<r, i>>
  <2>4. p \in Places(s) /\ AssetIn(s, p) = s.reels[r][i] /\ p[1] = r
    BY PlacesAre, TimelineType
  <2>5. /\ AssetIn(s, p).startFrame = ends[r - 1] /\ AssetIn(s, p).duration \in Nat
        /\ ends[r] = ends[r - 1] + AssetIn(s, p).duration /\ ends[r - 1] \in Nat
    <3>1. /\ s.reels[r][i].startFrame = ends[r - 1] /\ ends[r] = ends[r - 1] + s.reels[r][i].duration
          /\ ends \in [0 .. Len(s.reels) -> Nat] /\ HasOnePicture(s.reels[r])
      BY <1>1, <2>3 DEF Follow
    <3>2. s.reels[r][i].duration \in Nat
      BY <3>1 DEF HasOnePicture
    <3>3. ends[r - 1] \in Nat
      BY <1>2, <3>1
    <3>4. QED
      BY <2>4, <3>1, <3>2, <3>3
  <2>6. AssetIn(s, p).duration > 0 /\ Covers(AssetIn(s, p), f)
    BY <2>1, <2>2, <2>5 DEF Covers, EndFrame
  <2>7. p \in PlacesAt(s, f, "MainPicture")
    BY <2>3, <2>4, <2>6 DEF PlacesAt, PlacesOf
  <2> HIDE DEF p
  <2>8. ASSUME NEW q \in PlacesAt(s, f, "MainPicture"), AssetIn(s, q).duration > 0
        PROVE  q = p
    <3>1. /\ q[1] \in 1 .. Len(s.reels) /\ ends[q[1] - 1] <= f /\ f < ends[q[1]] /\ ends[q[1] - 1] \in Nat
      BY <1>1, <2>1, <2>8, PicturesAt
    <3>4. q[1] = r
      BY <1>1, <2>1, <2>2, <3>1, OneReel
    <3>5. \A x \in PlacesAt(s, f, "MainPicture") : x[1] = p[1] => x = p
      BY <1>1, <2>1, <2>7, PicturesAt
    <3>6. QED
      BY <2>4, <3>4, <3>5
  <2>9. {q \in PlacesAt(s, f, "MainPicture") : AssetIn(s, q).duration > 0} = {p}
    BY <2>6, <2>7, <2>8
  <2>10. FrameInfo(s, f).found
    BY <2>1, <2>7, FrameInfoIs
  <2>11. PICK x : x \in PlacesAt(s, f, "MainPicture") /\ Tells(FrameInfo(s, f), AssetIn(s, x))
    BY <2>1, <2>10, FrameInfoIs DEF Tells
  <2>12. x \in Places(s)
    BY <2>11 DEF PlacesAt, PlacesOf
  <2>13. FrameInfo(s, f).duration \in 1..LongestFrameLength(s)
    BY <2>11, <2>12, LongestIs DEF Tells
  <2>14. AssetIn(s, x).duration \in Nat /\ (AssetIn(s, x).duration = 0 => f = 0)
    BY <1>1, <2>1, <2>11, PicturesAt
  <2>15. IsTold(s, f, p)
    <3>1. CASE AssetIn(s, x).duration = 0
      BY <2>11, <2>14, <3>1 DEF IsTold
    <3>2. CASE AssetIn(s, x).duration > 0
      BY <2>8, <2>11, <3>2 DEF IsTold
    <3>3. QED
      BY <2>14, <3>1, <3>2
  <2>16. QED
    BY <2>7, <2>9, <2>10, <2>13, <2>15
<1>6. QED
  BY <1>4, <1>5

\* What the manager knows of its show.
ShowInv ==
  /\ CPLList \in Seq(Files)
  /\ showLoaded \in BOOLEAN
  /\ show = Null \/ Timeline(show)
  /\ showLoaded => Timeline(show) /\ show.frames # 0

LEMMA InitShows == Init => ShowInv
<1>1. ASSUME Init
      PROVE  CPLList \in Seq(Files) /\ show = Null /\ showLoaded = FALSE
  BY <1>1 DEF Init, InitManager
<1>2. QED
  BY <1>1 DEF ShowInv

LEMMA ShowsLeftAlone ==
  ASSUME ShowInv, UNCHANGED <<CPLList, show, showLoaded>>
  PROVE  ShowInv'
BY DEF ShowInv

LEMMA StepShows ==
  ASSUME ShowInv, [Next]_vars, PicturesAreRegular
  PROVE  ShowInv'
<1>1. ASSUME NEW f \in Files, AddCPL(f)
      PROVE  ShowInv'
  <2>1. CPLList' \in Seq(Files) /\ UNCHANGED <<show, showLoaded>>
    BY <1>1 DEF AddCPL, ShowInv
  <2>2. QED
    BY <2>1 DEF ShowInv
<1>2. ASSUME NEW files \in Lists, AddCPLList(files)
      PROVE  ShowInv'
  <2>1. CPLList' \in Seq(Files) /\ UNCHANGED <<show, showLoaded>>
    BY <1>2, SSServerAssumption DEF AddCPLList, ShowInv
  <2>2. QED
    BY <2>1 DEF ShowInv
<1>3. CASE Load
  <2>1. Len(CPLList) \in Nat /\ CPLList' \in Seq(Files)
    BY <1>3 DEF Load, ShowInv
  <2>2. Timeline(ShowOf(CPLList))
    BY <2>1, ShowOfIs
  <2>3. show' = ShowOf(CPLList) /\ showLoaded' = (ShowOf(CPLList).frames # 0)
    BY <1>3 DEF Load
  <2>4. QED
    BY <2>1, <2>2, <2>3 DEF ShowInv
<1>4. CASE Reset
  <2>1. CPLList' \in Seq(Files) /\ show' = Null /\ showLoaded' = FALSE
    BY <1>4 DEF Reset
  <2>2. QED
    BY <2>1 DEF ShowInv
<1>5. CASE UNCHANGED <<CPLList, show, showLoaded>>
  BY <1>5, ShowsLeftAlone
<1>6. ASSUME NEW c \in Conns, HandleRead(c)
      PROVE  UNCHANGED <<CPLList, show, showLoaded>>
  <2>1. ASSUME NEW n, HandlePiece(c, n)
        PROVE  UNCHANGED <<CPLList, show, showLoaded>>
    BY <2>1 DEF HandlePiece, HandleRequest, StockReply, managerVars
  <2>2. QED
    BY <1>6, <2>1 DEF HandleRead, managerVars
<1>7. QED
  <2>1. CASE PrepareShow
    BY <1>1, <1>2, <1>3, <1>4, <2>1 DEF PrepareShow
  <2>2. CASE Start \/ End \/ AcceptCompletes \/ HandleAccept \/ HandleSignal \/ UNCHANGED vars
    BY <1>5, <2>2 DEF Start, End, AcceptCompletes, HandleAccept, HandleSignal, vars, managerVars
  <2>3. ASSUME NEW c \in Conns, Connect(c) \/ OperationCompletes(c) \/ HandleWrite(c)
        PROVE  ShowInv'
    BY <1>5, <2>3 DEF Connect, OperationCompletes, HandleWrite, managerVars
  <2>4. QED
    BY <1>5, <1>6, <2>1, <2>2, <2>3 DEF Next

\* When every reel of the CPLs has one picture, whatever else they list, a loaded show
\* has one picture with a duration for each of its frames and tells the frame that one's
\* identity and rate, for as long as the buffers have room, and nothing behind the last;
\* but frame 0 may be told a picture without a duration that is listed before.
THEOREM FramesAreShown == Spec /\ PicturesAreRegular => []EveryFrameIsShown
<1> SUFFICES ASSUME PicturesAreRegular PROVE Spec => []EveryFrameIsShown
  OBVIOUS
<1>1. ShowInv => EveryFrameIsShown
  <2>1. SUFFICES ASSUME ShowInv, showLoaded PROVE EveryFrameIsShown
    BY DEF EveryFrameIsShown
  <2>2. Timeline(show) /\ show.frames # 0 /\ show.frames \in Nat
    BY <2>1, TimelineType DEF ShowInv
  <2>3. QED
    BY <2>2, TimelineIsShown DEF EveryFrameIsShown, IsTold
<1>2. QED
  <2>1. ShowInv /\ [Next]_vars => ShowInv'
    BY StepShows
  <2>2. QED
    BY <1>1, <2>1, InitShows, PTL DEF Spec

-----------------------------------------------------------------------------
(* The codec: what is written is read.                                     *)
LEMMA Write32Is ==
  ASSUME NEW v \in Number
  PROVE  /\ Write32(v) \in Seq(Bytes) /\ Len(Write32(v)) = 4
         /\ ((Write32(v)[1] * Byte + Write32(v)[2]) * Byte + Write32(v)[3]) * Byte + Write32(v)[4] = v
<1>1. Byte \in Nat \ {0} /\ Write32(v) = Digits(Byte, v)
  BY ByteAssumption DEF Write32, Digits
<1>2. QED
  BY <1>1, DigitsAre DEF Number, Bytes

LEMMA HasNumber ==
  ASSUME NEW buf, NEW at \in Nat \ {0}, NEW v \in Number, HasAt(buf, at, Write32(v))
  PROVE  Read32(buf, at) = v
<1>1. Len(Write32(v)) = 4
  BY Write32Is
<1>2. \A i \in 1 .. 4 : buf[at + i - 1] = Write32(v)[i]
  BY <1>1 DEF HasAt
<1>3. /\ buf[at] = Write32(v)[1] /\ buf[at + 1] = Write32(v)[2]
      /\ buf[at + 2] = Write32(v)[3] /\ buf[at + 3] = Write32(v)[4]
  <2>1. at + 1 - 1 = at /\ at + 2 - 1 = at + 1 /\ at + 3 - 1 = at + 2 /\ at + 4 - 1 = at + 3
    OBVIOUS
  <2>2. 1 \in 1 .. 4 /\ 2 \in 1 .. 4 /\ 3 \in 1 .. 4 /\ 4 \in 1 .. 4
    OBVIOUS
  <2>3. QED
    BY <1>2, <2>1, <2>2
<1>4. QED
  BY <1>3, Write32Is DEF Read32

LEMMA Write32Type ==
  ASSUME NEW v \in Int
  PROVE  Write32(v) \in Seq(Bytes) /\ Len(Write32(v)) = 4
<1>1. \A b \in Nat \ {0} : \A n \in Int : n \div b \in Int /\ n % b \in 0 .. b - 1
  OBVIOUS
<1> DEFINE v8 == v \div Byte
           v16 == v8 \div Byte
           v24 == v16 \div Byte
<1>2. v8 \in Int /\ v16 \in Int /\ v24 \in Int /\ Byte \in Nat \ {0}
  BY <1>1, ByteAssumption
<1>3. v % Byte \in Bytes /\ v8 % Byte \in Bytes /\ v16 % Byte \in Bytes /\ v24 % Byte \in Bytes
  BY <1>1, <1>2 DEF Bytes
<1>4. Write32(v) = <<v24 % Byte, v16 % Byte, v8 % Byte, v % Byte>>
  BY DEF Write32
<1>5. QED
  BY <1>3, <1>4

LEMMA BER5Type ==
  ASSUME NEW v \in Int
  PROVE  WriteBER5(v) \in Seq(Bytes) /\ Len(WriteBER5(v)) = 5
<1>1. Byte \div 2 + 4 \in Bytes
  BY ByteAssumption DEF Bytes
<1>2. Write32(v) \in Seq(Bytes) /\ Len(Write32(v)) = 4
  BY Write32Type
<1>3. \A x \in Bytes : <<x>> \in Seq(Bytes) /\ Len(<<x>>) = 1
  OBVIOUS
<1>4. PICK c1 \in Seq(Bytes) : c1 = <<Byte \div 2 + 4>> /\ Len(c1) = 1
  BY <1>1, <1>3
<1>5. PICK c2 \in Seq(Bytes) : c2 = Write32(v) /\ Len(c2) = 4
  BY <1>2
<1>6. \A q, r \in Seq(Bytes) : q \o r \in Seq(Bytes) /\ Len(q \o r) = Len(q) + Len(r)
  OBVIOUS
<1>7. Len(c1) + Len(c2) = 5
  BY <1>4, <1>5
<1>8. c1 \o c2 \in Seq(Bytes) /\ Len(c1 \o c2) = Len(c1) + Len(c2)
  BY ONLY <1>6, c1 \in Seq(Bytes), c2 \in Seq(Bytes)
<1>9. WriteBER5(v) = c1 \o c2
  BY <1>4, <1>5 DEF WriteBER5
<1>10. QED
  BY <1>7, <1>8, <1>9

LEMMA PackKeyType ==
  ASSUME NEW kind \in 0 .. 127
  PROVE  PackKey(kind) \in Seq(Bytes) /\ Len(PackKey(kind)) = KeyLength
<1>1. 0 .. 127 \subseteq Bytes
  BY ByteAssumption DEF Bytes
<1>2. /\ kind \in Bytes /\ 0 \in Bytes /\ 1 \in Bytes /\ 2 \in Bytes /\ 3 \in Bytes /\ 6 \in Bytes
      /\ 12 \in Bytes /\ 14 \in Bytes /\ 43 \in Bytes /\ 52 \in Bytes /\ 127 \in Bytes
  BY <1>1
<1>3. PackKey(kind) \in Seq(Bytes)
  BY <1>2 DEF PackKey
<1>4. Len(PackKey(kind)) = KeyLength
  BY DEF PackKey, KeyLength
<1>5. QED
  BY <1>3, <1>4

Data == {d \in Seq(Bytes) : Len(d) \in Number}
Blocks == [editUnit : Number, rateNumerator : Number, rateDenominator : Number,
           codingUL : {u \in Seq(Bytes) : Len(u) = KeyLength},
           dataItem : Data, cryptographicContext : Data]

LEMMA NumberIs == Number \subseteq Nat /\ {0, 1} \subseteq Number
<1>1. PICK n \in Nat : n = Byte * Byte * Byte * Byte /\ n > 1
  <2>1. \A b \in Nat : b > 127 => b * b * b * b \in Nat /\ b * b * b * b > 1
    <3>1. TAKE b \in Nat
    <3>2. HAVE b > 127
    <3>3. b * b > 1 /\ b * b \in Nat
      BY <3>2
    <3>4. (b * b) * b > 1 /\ (b * b) * b \in Nat
      BY <3>2, <3>3
    <3>5. ((b * b) * b) * b > 1 /\ ((b * b) * b) * b \in Nat
      BY <3>2, <3>4
    <3>6. QED
      BY <3>5
  <2>2. QED
    BY <2>1, ByteAssumption
<1>2. Number = 0 .. n - 1
  BY <1>1 DEF Number
<1>3. QED
  BY <1>1, <1>2

LEMMA CountedParts ==
  ASSUME NEW data \in Data
  PROVE  \E c1, c2 \in Seq(Bytes) :
           /\ WriteCounted(data) = c1 \o c2 \o data /\ c2 = Write32(Len(data))
           /\ Len(c1) = 4 /\ Len(c2) = 4
<1>1. Len(data) \in Number /\ 0 \in Number
  BY NumberIs DEF Data
<1>2. PICK c1 \in Seq(Bytes) : c1 = Write32(0) /\ Len(c1) = 4
  BY <1>1, Write32Is
<1>3. PICK c2 \in Seq(Bytes) : c2 = Write32(Len(data)) /\ Len(c2) = 4
  BY <1>1, Write32Is
<1>4. WriteCounted(data) = c1 \o c2 \o data
  BY <1>2, <1>3 DEF WriteCounted, Write64, Long
<1>5. QED
  BY <1>2, <1>3, <1>4

LEMMA CountedType ==
  ASSUME NEW data \in Data
  PROVE  WriteCounted(data) \in Seq(Bytes) /\ Len(WriteCounted(data)) = 8 + Len(data)
<1>1. data \in Seq(Bytes) /\ Len(data) \in Nat
  BY DEF Data
<1>2. PICK c1, c2 \in Seq(Bytes) : /\ WriteCounted(data) = c1 \o c2 \o data
                                  /\ Len(c1) = 4 /\ Len(c2) = 4
  BY CountedParts
<1>3. c1 \o c2 \o data \in Seq(Bytes) /\ Len(c1 \o c2 \o data) = Len(c1) + Len(c2) + Len(data)
  BY ONLY <1>1, ThreeParts, c1 \in Seq(Bytes), c2 \in Seq(Bytes)
<1>4. Len(c1) + Len(c2) + Len(data) = 8 + Len(data)
  BY <1>1, <1>2
<1>5. QED
  BY <1>2, <1>3, <1>4

LEMMA CountedIsRead ==
  ASSUME NEW buf \in Seq(Bytes), NEW at \in Nat \ {0}, NEW data \in Data,
         HasAt(buf, at, WriteCounted(data))
  PROVE  ReadCounted(buf, at) = Read(data, at + 8 + Len(data))
<1>1. Len(data) \in Number /\ Len(data) \in Nat /\ data \in Seq(Bytes)
  BY NumberIs DEF Data
<1>2. PICK c1, c2 \in Seq(Bytes) : /\ WriteCounted(data) = c1 \o c2 \o data /\ c2 = Write32(Len(data))
                                  /\ Len(c1) = 4 /\ Len(c2) = 4
  BY CountedParts
<1>3. HasAt(buf, at, c1 \o c2 \o data)
  BY <1>2
<1>4. /\ HasAt(buf, at + Len(c1), c2) /\ HasAt(buf, at + Len(c1) + Len(c2), data)
  BY ONLY <1>1, <1>3, ThreeParts, c1 \in Seq(Bytes), c2 \in Seq(Bytes), buf \in Seq(Bytes), at \in Nat \ {0}
<1>5. at + Len(c1) = at + 4 /\ at + Len(c1) + Len(c2) = at + 8
  BY <1>2
<1>6. HasAt(buf, at + 4, Write32(Len(data))) /\ HasAt(buf, at + 8, data)
  BY <1>2, <1>4, <1>5
<1>7. Read64(buf, at).lo = Len(data)
  <2>1. at + 4 \in Nat \ {0}
    OBVIOUS
  <2>2. QED
    BY <1>1, <1>6, <2>1, HasNumber DEF Read64
<1>8. SubSeq(buf, at + 8, at + 7 + Len(data)) = data
  <2>1. at + 8 \in Nat \ {0} /\ at + 7 + Len(data) = (at + 8) + Len(data) - 1
    BY <1>1
  <2>2. QED
    BY <1>1, <1>6, <2>1, HasSub
<1>9. QED
  BY <1>7, <1>8 DEF ReadCounted

\* A block up to its UL, and up to the context.
BlockHead(block) ==
  PackKey(2) \o WriteBER5(BlockSize(block) - KeyLength - 5)
    \o Write32(block.editUnit) \o Write32(block.rateNumerator) \o Write32(block.rateDenominator)

BlockMiddle(block) == BlockHead(block) \o block.codingUL \o WriteCounted(block.dataItem)

LEMMA FieldTypes ==
  ASSUME NEW block \in Blocks
  PROVE  /\ block.editUnit \in Number /\ block.rateNumerator \in Number /\ block.rateDenominator \in Number
         /\ block.codingUL \in Seq(Bytes) /\ Len(block.codingUL) = KeyLength
         /\ block.dataItem \in Data /\ block.cryptographicContext \in Data
         /\ Len(block.dataItem) \in Nat /\ Len(block.cryptographicContext) \in Nat
BY DEF Blocks, Data

LEMMA BlockHeadIs ==
  ASSUME NEW block \in Blocks
  PROVE  /\ BlockHead(block) \in Seq(Bytes) /\ Len(BlockHead(block)) = 33
         /\ \A buf \in Seq(Bytes), at \in Nat \ {0} : HasAt(buf, at, BlockHead(block)) =>
              /\ HasAt(buf, at + 21, Write32(block.editUnit))
              /\ HasAt(buf, at + 25, Write32(block.rateNumerator))
              /\ HasAt(buf, at + 29, Write32(block.rateDenominator))
<1>1. PICK l \in Nat : l = Len(block.dataItem)
  BY FieldTypes
<1>2. PICK m \in Nat : m = Len(block.cryptographicContext)
  BY FieldTypes
<1>3. BlockSize(block) - KeyLength - 5 \in Int
  BY <1>1, <1>2 DEF BlockSize, KeyLength
<1>4. PICK c1 \in Seq(Bytes) : c1 = PackKey(2) /\ Len(c1) = 16
  BY PackKeyType DEF KeyLength
<1>5. PICK c2 \in Seq(Bytes) : c2 = WriteBER5(BlockSize(block) - KeyLength - 5) /\ Len(c2) = 5
  BY <1>3, BER5Type
<1>6. PICK c3 \in Seq(Bytes) : c3 = Write32(block.editUnit) /\ Len(c3) = 4
  BY FieldTypes, Write32Is
<1>7. PICK c4 \in Seq(Bytes) : c4 = Write32(block.rateNumerator) /\ Len(c4) = 4
  BY FieldTypes, Write32Is
<1>8. PICK c5 \in Seq(Bytes) : c5 = Write32(block.rateDenominator) /\ Len(c5) = 4
  BY FieldTypes, Write32Is
<1>9. PICK a \in Seq(Bytes) : a = c1 \o c2 \o c3
  BY ONLY ThreeParts, c1 \in Seq(Bytes), c2 \in Seq(Bytes), c3 \in Seq(Bytes)
<1>10. BlockHead(block) = a \o c4 \o c5
  BY <1>4, <1>5, <1>6, <1>7, <1>8, <1>9 DEF BlockHead
<1>11. /\ Len(a) = Len(c1) + Len(c2) + Len(c3)
       /\ \A buf \in Seq(Bytes), at \in Nat \ {0} : HasAt(buf, at, a) =>
            HasAt(buf, at + Len(c1) + Len(c2), c3)
  <2>1. /\ Len(c1 \o c2 \o c3) = Len(c1) + Len(c2) + Len(c3)
        /\ \A buf \in Seq(Bytes), at \in Nat \ {0} : HasAt(buf, at, c1 \o c2 \o c3) =>
             /\ HasAt(buf, at, c1) /\ HasAt(buf, at + Len(c1), c2)
             /\ HasAt(buf, at + Len(c1) + Len(c2), c3)
    BY ONLY ThreeParts, c1 \in Seq(Bytes), c2 \in Seq(Bytes), c3 \in Seq(Bytes)
  <2>2. QED
    BY <1>9, <2>1, Zenon
<1>12. /\ a \o c4 \o c5 \in Seq(Bytes) /\ Len(a \o c4 \o c5) = Len(a) + Len(c4) + Len(c5)
       /\ \A buf \in Seq(Bytes), at \in Nat \ {0} : HasAt(buf, at, a \o c4 \o c5) =>
            /\ HasAt(buf, at, a) /\ HasAt(buf, at + Len(a), c4)
            /\ HasAt(buf, at + Len(a) + Len(c4), c5)
  BY ONLY ThreeParts, a \in Seq(Bytes), c4 \in Seq(Bytes), c5 \in Seq(Bytes)
<1>13. /\ Len(a) = 25 /\ Len(a) + Len(c4) + Len(c5) = 33
       /\ \A at \in Nat \ {0} : /\ at + Len(c1) + Len(c2) = at + 21
                               /\ at + Len(a) = at + 25 /\ at + Len(a) + Len(c4) = at + 29
  <2>1. Len(c1) = 16 /\ Len(c2) = 5 /\ Len(c3) = 4 /\ Len(c4) = 4 /\ Len(c5) = 4
    BY <1>4, <1>5, <1>6, <1>7, <1>8
  <2>2. Len(a) = 25
    BY ONLY <1>11, <2>1, c1 \in Seq(Bytes), c2 \in Seq(Bytes), c3 \in Seq(Bytes)
  <2>3. QED
    BY ONLY <2>1, <2>2, a \in Seq(Bytes), c1 \in Seq(Bytes), c2 \in Seq(Bytes),
       c4 \in Seq(Bytes), c5 \in Seq(Bytes)
<1>14. ASSUME NEW buf \in Seq(Bytes), NEW at \in Nat \ {0}, HasAt(buf, at, BlockHead(block))
       PROVE  HasAt(buf, at + 21, c3) /\ HasAt(buf, at + 25, c4) /\ HasAt(buf, at + 29, c5)
  <2>1. HasAt(buf, at, a) /\ HasAt(buf, at + Len(a), c4) /\ HasAt(buf, at + Len(a) + Len(c4), c5)
    BY <1>10, <1>12, <1>14, Zenon
  <2>2. HasAt(buf, at + Len(c1) + Len(c2), c3)
    BY <1>11, <2>1, Zenon
  <2>3. QED
    BY <1>13, <2>1, <2>2, Zenon
<1>15. BlockHead(block) \in Seq(Bytes) /\ Len(BlockHead(block)) = 33
  BY <1>10, <1>12, <1>13, Zenon
<1>16. QED
  BY <1>6, <1>7, <1>8, <1>14, <1>15, Zenon

LEMMA BlockMiddleIs ==
  ASSUME NEW block \in Blocks
  PROVE  /\ BlockMiddle(block) \in Seq(Bytes)
         /\ Len(BlockMiddle(block)) = 57 + Len(block.dataItem)
         /\ \A buf \in Seq(Bytes), at \in Nat \ {0} : HasAt(buf, at, BlockMiddle(block)) =>
              /\ HasAt(buf, at, BlockHead(block)) /\ HasAt(buf, at + 33, block.codingUL)
              /\ HasAt(buf, at + 49, WriteCounted(block.dataItem))
<1>1. PICK l \in Nat : l = Len(block.dataItem)
  BY FieldTypes
<1>2. PICK c1 \in Seq(Bytes) : c1 = BlockHead(block) /\ Len(c1) = 33
  BY BlockHeadIs
<1>3. PICK c2 \in Seq(Bytes) : c2 = block.codingUL /\ Len(c2) = 16
  BY FieldTypes DEF KeyLength
<1>4. PICK c3 \in Seq(Bytes) : c3 = WriteCounted(block.dataItem) /\ Len(c3) = 8 + l
  BY <1>1, FieldTypes, CountedType
<1>5. BlockMiddle(block) = c1 \o c2 \o c3
  BY <1>2, <1>3, <1>4 DEF BlockMiddle
<1>6. /\ c1 \o c2 \o c3 \in Seq(Bytes) /\ Len(c1 \o c2 \o c3) = Len(c1) + Len(c2) + Len(c3)
      /\ \A buf \in Seq(Bytes), at \in Nat \ {0} : HasAt(buf, at, c1 \o c2 \o c3) =>
           /\ HasAt(buf, at, c1) /\ HasAt(buf, at + Len(c1), c2)
           /\ HasAt(buf, at + Len(c1) + Len(c2), c3)
  BY ONLY ThreeParts, c1 \in Seq(Bytes), c2 \in Seq(Bytes), c3 \in Seq(Bytes)
<1>7. /\ Len(c1) + Len(c2) + Len(c3) = 57 + l
      /\ \A at \in Nat \ {0} : at + Len(c1) = at + 33 /\ at + Len(c1) + Len(c2) = at + 49
  BY <1>2, <1>3, <1>4
<1>8. ASSUME NEW buf \in Seq(Bytes), NEW at \in Nat \ {0}, HasAt(buf, at, BlockMiddle(block))
      PROVE  HasAt(buf, at, c1) /\ HasAt(buf, at + 33, c2) /\ HasAt(buf, at + 49, c3)
  <2>1. /\ HasAt(buf, at, c1) /\ HasAt(buf, at + Len(c1), c2)
        /\ HasAt(buf, at + Len(c1) + Len(c2), c3)
    BY <1>5, <1>6, <1>8, Zenon
  <2>2. QED
    BY <1>7, <2>1, Zenon
<1>9. BlockMiddle(block) \in Seq(Bytes) /\ Len(BlockMiddle(block)) = 57 + Len(block.dataItem)
  BY <1>1, <1>5, <1>6, <1>7, Zenon
<1>10. QED
  BY <1>2, <1>3, <1>4, <1>8, <1>9, Zenon

LEMMA BlockType ==
  ASSUME NEW block \in Blocks
  PROVE  /\ WriteBlock(block) \in Seq(Bytes) /\ Len(WriteBlock(block)) = BlockSize(block)
         /\ BlockSize(block) \in Nat /\ BlockSize(block) >= KeyLength
         /\ BlockSize(block) = 57 + Len(block.dataItem) + 8 + Len(block.cryptographicContext)
<1>1. PICK l \in Nat : l = Len(block.dataItem)
  BY FieldTypes
<1>2. PICK m \in Nat : m = Len(block.cryptographicContext)
  BY FieldTypes
<1>3. PICK a \in Seq(Bytes) : a = BlockMiddle(block) /\ Len(a) = 57 + l
  BY <1>1, BlockMiddleIs
<1>4. PICK c \in Seq(Bytes) : c = WriteCounted(block.cryptographicContext) /\ Len(c) = 8 + m
  BY <1>2, FieldTypes, CountedType
<1>5. WriteBlock(block) = a \o c
  BY <1>3, <1>4 DEF WriteBlock, BlockMiddle, BlockHead
<1>6. a \o c \in Seq(Bytes) /\ Len(a \o c) = Len(a) + Len(c)
  BY ONLY a \in Seq(Bytes), c \in Seq(Bytes)
<1>7. BlockSize(block) = KeyLength + 5 + 4 + 4 + 4 + KeyLength + 8 + l + 8 + m
  BY <1>1, <1>2 DEF BlockSize
<1>8. /\ BlockSize(block) = 57 + l + 8 + m /\ Len(a) + Len(c) = 57 + l + 8 + m
      /\ 57 + l + 8 + m \in Nat /\ 57 + l + 8 + m >= KeyLength
  BY <1>3, <1>4, <1>7 DEF KeyLength
<1>9. QED
  BY <1>1, <1>2, <1>5, <1>6, <1>8, Zenon

LEMMA BlockIsRead ==
  ASSUME NEW buf \in Seq(Bytes), NEW at \in Nat \ {0}, NEW block \in Blocks,
         HasAt(buf, at, WriteBlock(block))
  PROVE  ReadBlock(buf, at) = Read(block, at + BlockSize(block))
<1>1. PICK l \in Nat : l = Len(block.dataItem)
  BY FieldTypes
<1>2. PICK m \in Nat : m = Len(block.cryptographicContext)
  BY FieldTypes
<1>3. PICK a \in Seq(Bytes) : a = BlockMiddle(block) /\ Len(a) = 57 + l
  BY <1>1, BlockMiddleIs
<1>4. PICK c \in Seq(Bytes) : c = WriteCounted(block.cryptographicContext)
  BY FieldTypes, CountedType
<1>5. WriteBlock(block) = a \o c
  BY <1>3, <1>4 DEF WriteBlock, BlockMiddle, BlockHead
<1>6. HasAt(buf, at, a) /\ HasAt(buf, at + Len(a), c)
  BY <1>5, HasParts
<1>7. at + Len(a) = at + 57 + l
  BY <1>3
<1>8. /\ HasAt(buf, at + 33, block.codingUL) /\ HasAt(buf, at + 49, WriteCounted(block.dataItem))
      /\ HasAt(buf, at, BlockHead(block))
      /\ HasAt(buf, at + 57 + l, WriteCounted(block.cryptographicContext))
  BY <1>3, <1>4, <1>6, <1>7, BlockMiddleIs, Zenon
<1>9. /\ HasAt(buf, at + 21, Write32(block.editUnit)) /\ HasAt(buf, at + 25, Write32(block.rateNumerator))
      /\ HasAt(buf, at + 29, Write32(block.rateDenominator))
  BY <1>8, BlockHeadIs, Zenon
<1>10. /\ at + 21 \in Nat \ {0} /\ at + 25 \in Nat \ {0} /\ at + 29 \in Nat \ {0} /\ at + 33 \in Nat \ {0}
       /\ at + 49 \in Nat \ {0} /\ at + 57 + l \in Nat \ {0}
  OBVIOUS
<1>11. /\ Read32(buf, at + 21) = block.editUnit /\ Read32(buf, at + 25) = block.rateNumerator
       /\ Read32(buf, at + 29) = block.rateDenominator
  BY <1>9, <1>10, FieldTypes, HasNumber
<1>12. SubSeq(buf, at + 33, at + 48) = block.codingUL
  <2>1. PICK u \in Seq(Bytes) : u = block.codingUL /\ Len(u) = 16
    BY FieldTypes DEF KeyLength
  <2>2. PICK from \in Nat \ {0} : from = at + 33
    OBVIOUS
  <2>3. PICK last \in Nat : last = at + 48
    OBVIOUS
  <2>4. last = from + Len(u) - 1
    BY <2>1, <2>2, <2>3
  <2>5. HasAt(buf, from, u)
    BY <1>8, <2>1, <2>2
  <2>6. SubSeq(buf, from, last) = u
    BY ONLY <2>4, <2>5, HasSub, buf \in Seq(Bytes), u \in Seq(Bytes), from \in Nat \ {0}
  <2>7. QED
    BY <2>1, <2>2, <2>3, <2>6
<1>13. ReadCounted(buf, at + 49) = Read(block.dataItem, at + 49 + 8 + l)
  <2>1. PICK d \in Data : d = block.dataItem /\ l = Len(d)
    BY <1>1, FieldTypes
  <2>2. PICK from \in Nat \ {0} : from = at + 49
    BY <1>10
  <2>3. HasAt(buf, from, WriteCounted(d))
    BY <1>8, <2>1, <2>2
  <2>4. ReadCounted(buf, from) = Read(d, from + 8 + Len(d))
    BY ONLY <2>3, CountedIsRead, buf \in Seq(Bytes), d \in Data, from \in Nat \ {0}
  <2>5. QED
    BY <2>1, <2>2, <2>4
<1>14. ReadCounted(buf, at + 57 + l) = Read(block.cryptographicContext, at + 57 + l + 8 + m)
  <2>1. PICK d \in Data : d = block.cryptographicContext /\ m = Len(d)
    BY <1>2, FieldTypes
  <2>2. PICK from \in Nat \ {0} : from = at + 57 + l
    BY <1>10
  <2>3. HasAt(buf, from, WriteCounted(d))
    BY <1>8, <2>1, <2>2
  <2>4. ReadCounted(buf, from) = Read(d, from + 8 + Len(d))
    BY ONLY <2>3, CountedIsRead, buf \in Seq(Bytes), d \in Data, from \in Nat \ {0}
  <2>5. QED
    BY <2>1, <2>2, <2>4
<1>15. block = [editUnit |-> block.editUnit, rateNumerator |-> block.rateNumerator,
                rateDenominator |-> block.rateDenominator, codingUL |-> block.codingUL,
                dataItem |-> block.dataItem, cryptographicContext |-> block.cryptographicContext]
  BY DEF Blocks
<1>16. at + 57 + l + 8 + m = at + BlockSize(block) /\ at + 49 + 8 + l = at + 57 + l
  <2>1. BlockSize(block) = 57 + l + 8 + m
    BY <1>1, <1>2, BlockType
  <2>2. QED
    BY <2>1
<1>17. ReadBlock(buf, at) =
         Read([editUnit |-> Read32(buf, at + 21), rateNumerator |-> Read32(buf, at + 25),
               rateDenominator |-> Read32(buf, at + 29), codingUL |-> SubSeq(buf, at + 33, at + 48),
               dataItem |-> ReadCounted(buf, at + 49).value,
               cryptographicContext |-> ReadCounted(buf, ReadCounted(buf, at + 49).at).value],
              ReadCounted(buf, ReadCounted(buf, at + 49).at).at)
  <2>1. /\ at + KeyLength + 5 = at + 21 /\ at + KeyLength + 5 + 4 = at + 25
        /\ at + KeyLength + 5 + 8 = at + 29 /\ at + KeyLength + 5 + 12 = at + 33
        /\ at + KeyLength + 5 + 11 + KeyLength = at + 48 /\ at + KeyLength + 5 + 12 + KeyLength = at + 49
    BY DEF KeyLength
  <2>2. QED
    BY <2>1 DEF ReadBlock
<1>18. /\ ReadCounted(buf, at + 49).value = block.dataItem
       /\ ReadCounted(buf, at + 49).at = at + 57 + l
       /\ ReadCounted(buf, at + 57 + l).value = block.cryptographicContext
       /\ ReadCounted(buf, at + 57 + l).at = at + BlockSize(block)
  BY <1>13, <1>14, <1>16 DEF Read
<1>19. QED
  BY <1>11, <1>12, <1>15, <1>17, <1>18

\* What the server made of some blocks: the client's steps find them one by one.
Sent(start, count, blocks) ==
  WriteTransferHeader(start, count) \o FlattenSeq([i \in DOMAIN blocks |-> WriteBlock(blocks[i])])

LEMMA HeaderIs ==
  ASSUME NEW start \in Number, NEW count \in Number
  PROVE  /\ WriteTransferHeader(start, count) \in Seq(Bytes)
         /\ Len(WriteTransferHeader(start, count)) = headerLength
         /\ \A buf \in Seq(Bytes) : HasAt(buf, 1, WriteTransferHeader(start, count)) =>
              ReadTransferHeader(buf) = Read([start |-> start, count |-> count], headerLength + 1)
<1>1. PICK c1 \in Seq(Bytes) : c1 = PackKey(1) /\ Len(c1) = 16
  BY PackKeyType DEF KeyLength
<1>2. PICK c2 \in Seq(Bytes) : c2 = WriteBER5(8) /\ Len(c2) = 5
  BY BER5Type
<1>3. PICK c3 \in Seq(Bytes) : c3 = Write32(start) /\ Len(c3) = 4
  BY Write32Is
<1>4. PICK c4 \in Seq(Bytes) : c4 = Write32(count) /\ Len(c4) = 4
  BY Write32Is
<1>5. WriteTransferHeader(start, count) = (c1 \o c2 \o c3) \o c4
  BY <1>1, <1>2, <1>3, <1>4 DEF WriteTransferHeader
<1>6. /\ c1 \o c2 \o c3 \in Seq(Bytes) /\ Len(c1 \o c2 \o c3) = Len(c1) + Len(c2) + Len(c3)
      /\ \A buf \in Seq(Bytes), at \in Nat \ {0} : HasAt(buf, at, c1 \o c2 \o c3) =>
           /\ HasAt(buf, at, c1) /\ HasAt(buf, at + Len(c1), c2)
           /\ HasAt(buf, at + Len(c1) + Len(c2), c3)
  BY ONLY ThreeParts, c1 \in Seq(Bytes), c2 \in Seq(Bytes), c3 \in Seq(Bytes)
<1>7. PICK a \in Seq(Bytes) : a = c1 \o c2 \o c3
  BY <1>6
<1>8. /\ a \o c4 \in Seq(Bytes) /\ Len(a \o c4) = Len(a) + Len(c4)
  BY ONLY a \in Seq(Bytes), c4 \in Seq(Bytes)
<1>9. Len(a) = 25
  <2>1. Len(a) = Len(c1) + Len(c2) + Len(c3)
    BY <1>6, <1>7, Zenon
  <2>2. Len(c1) = 16 /\ Len(c2) = 5 /\ Len(c3) = 4
    BY <1>1, <1>2, <1>3
  <2>3. QED
    BY ONLY <2>1, <2>2, c1 \in Seq(Bytes), c2 \in Seq(Bytes), c3 \in Seq(Bytes)
<1>10. Len(a) + Len(c4) = headerLength /\ KeyLength + 6 = 22 /\ KeyLength + 10 = 26
  BY <1>4, <1>9 DEF headerLength, KeyLength
<1>11. ASSUME NEW buf \in Seq(Bytes), HasAt(buf, 1, WriteTransferHeader(start, count))
       PROVE  ReadTransferHeader(buf) = Read([start |-> start, count |-> count], headerLength + 1)
  <2>1. PICK at \in Nat \ {0} : at = 1
    OBVIOUS
  <2>2. HasAt(buf, at, a \o c4)
    BY <1>5, <1>7, <1>11, <2>1
  <2>3. HasAt(buf, at, a) /\ HasAt(buf, at + Len(a), c4)
    BY ONLY <2>2, HasParts, buf \in Seq(Bytes), at \in Nat \ {0}, a \in Seq(Bytes), c4 \in Seq(Bytes)
  <2>4. HasAt(buf, at + Len(c1) + Len(c2), c3)
    BY <1>6, <1>7, <2>3, Zenon
  <2>5. at + Len(c1) + Len(c2) = 22 /\ at + Len(a) = 26
    <3>1. Len(c1) = 16 /\ Len(c2) = 5
      BY <1>1, <1>2
    <3>2. QED
      BY ONLY <1>9, <2>1, <3>1, c1 \in Seq(Bytes), c2 \in Seq(Bytes), a \in Seq(Bytes)
  <2>6. HasAt(buf, 22, Write32(start)) /\ HasAt(buf, 26, Write32(count))
    BY <1>3, <1>4, <2>3, <2>4, <2>5, Zenon
  <2>7. Read32(buf, 22) = start /\ Read32(buf, 26) = count
    BY <2>6, HasNumber
  <2>8. QED
    BY <1>10, <2>7 DEF ReadTransferHeader
<1>12. QED
  BY <1>5, <1>7, <1>8, <1>10, <1>11, Zenon

\* f[i] is what the client has read after i blocks.
FindsTo(f, buf, first, n) ==
  f = [i \in 0 .. n |-> IF i = 0 THEN first ELSE NextBlock(buf, f[i - 1])]

LEMMA FindsExists ==
  ASSUME NEW buf, NEW first, NEW n \in Nat
  PROVE  \E f : FindsTo(f, buf, first, n)
<1> DEFINE base == first
           Step(x, i) == NextBlock(buf, x)
           Holds == {k \in Nat : \E f : f = [i \in 0 .. k |-> IF i = 0 THEN base ELSE Step(f[i - 1], i)]}
<1> HIDE DEF base, Step
<1>1. 0 \in Holds
  <2> DEFINE f == [i \in 0 .. 0 |-> base]
  <2>1. f = [i \in 0 .. 0 |-> IF i = 0 THEN base ELSE Step(f[i - 1], i)]
    OBVIOUS
  <2>2. QED
    BY <2>1
<1>2. ASSUME NEW k \in Nat, k < n, k \in Holds
      PROVE  k + 1 \in Holds
  <2>1. PICK f : f = [i \in 0 .. k |-> IF i = 0 THEN base ELSE Step(f[i - 1], i)]
    BY <1>2
  <2> DEFINE g == [i \in 0 .. k + 1 |-> IF i = 0 THEN base ELSE Step(f[i - 1], i)]
             h == [i \in 0 .. k + 1 |-> IF i = 0 THEN base ELSE Step(g[i - 1], i)]
  <2>2. \A i \in 0 .. k : g[i] = f[i]
    BY <2>1
  <2>3. \A i \in 0 .. k + 1 : g[i] = h[i]
    <3>1. \A i \in 0 .. k + 1 : i # 0 => i - 1 \in 0 .. k
      OBVIOUS
    <3>2. QED
      BY <2>2, <3>1
  <2>4. g = h
    BY <2>3
  <2> HIDE DEF g
  <2>5. QED
    BY <2>4
<1>3. 0 .. n \subseteq Holds
  <2>1. Holds \in SUBSET Nat
    OBVIOUS
  <2> HIDE DEF Holds
  <2>2. QED
    BY <1>1, <1>2, <2>1, FromZero
<1>4. QED
  BY <1>3 DEF FindsTo, base, Step

LEMMA FindsSteps ==
  ASSUME NEW buf, NEW first, NEW n \in Nat, NEW f, FindsTo(f, buf, first, n)
  PROVE  /\ f[0] = first
         /\ \A k \in Nat : k < n => f[k + 1] = NextBlock(buf, f[k])
<1> DEFINE base == first
           Step(x, i) == NextBlock(buf, x)
<1>1. f = [i \in 0 .. n |-> IF i = 0 THEN base ELSE Step(f[i - 1], i)]
  BY DEF FindsTo
<1> HIDE DEF base, Step
<1>2. f[0] = base
  BY <1>1
<1>3. ASSUME NEW k \in Nat, k < n
      PROVE  f[k + 1] = Step(f[k], k + 1)
  <2>1. k + 1 \in 0 .. n /\ k + 1 # 0 /\ (k + 1) - 1 = k
    BY <1>3
  <2>2. f[k + 1] = Step(f[(k + 1) - 1], k + 1)
    BY <1>1, <2>1
  <2>3. QED
    BY <2>1, <2>2
<1>4. QED
  BY <1>2, <1>3 DEF base, Step


LEMMA HeadOfSeq ==
  \A S : \A q \in Seq(S) :
    /\ SubSeq(q, 1, 0) = <<>> /\ SubSeq(q, 1, Len(q)) = q /\ Len(q) \in Nat
    /\ \A k \in Nat : k < Len(q) =>
         q[k + 1] \in S /\ SubSeq(q, 1, k + 1) = Append(SubSeq(q, 1, k), q[k + 1])
<1>1. TAKE S
<1>2. TAKE q \in Seq(S)
<1>3. SubSeq(q, 1, 0) = <<>> /\ SubSeq(q, 1, Len(q)) = q /\ Len(q) \in Nat
  OBVIOUS
<1>4. ASSUME NEW k \in Nat, k < Len(q)
      PROVE  q[k + 1] \in S /\ SubSeq(q, 1, k + 1) = Append(SubSeq(q, 1, k), q[k + 1])
  BY <1>4
<1>5. QED
  BY <1>3, <1>4

\* The blocks sent so far, and where they end in the buffer.
LEMMA SentParts ==
  ASSUME NEW start \in Number, NEW blocks \in Seq(Blocks), Len(blocks) \in Number
  PROVE  \E ends \in [0 .. Len(blocks) -> Nat] :
           /\ Sent(start, Len(blocks), blocks) \in Seq(Bytes)
           /\ ends[0] = headerLength
           /\ Len(Sent(start, Len(blocks), blocks)) = ends[Len(blocks)]
           /\ HasAt(Sent(start, Len(blocks), blocks), 1, WriteTransferHeader(start, Len(blocks)))
           /\ \A k \in Nat : k < Len(blocks) =>
                /\ ends[k + 1] = ends[k] + BlockSize(blocks[k + 1])
                /\ HasAt(Sent(start, Len(blocks), blocks), ends[k] + 1, WriteBlock(blocks[k + 1]))
<1> DEFINE W(i) == WriteBlock(blocks[i])
           q == [i \in DOMAIN blocks |-> W(i)]
           header == WriteTransferHeader(start, Len(blocks))
           buf == Sent(start, Len(blocks), blocks)
<1>1. PICK n \in Nat : n = Len(blocks) /\ DOMAIN blocks = 1 .. n /\ \A k \in 1 .. n : blocks[k] \in Blocks
  OBVIOUS
<1>2. \A k \in 1 .. n : W(k) \in Seq(Bytes) /\ Len(W(k)) = BlockSize(blocks[k]) /\ BlockSize(blocks[k]) \in Nat
  BY <1>1, BlockType
<1>3. buf = header \o FlattenSeq(q)
  BY DEF Sent
<1>4. header \in Seq(Bytes) /\ Len(header) = headerLength /\ headerLength \in Nat
  <2>1. headerLength \in Nat
    BY DEF headerLength, KeyLength
  <2>2. QED
    BY <2>1, HeaderIs
<1> HIDE DEF W, header, buf
<1>5. q \in Seq(Seq(Bytes)) /\ Len(q) = n /\ \A k \in 1 .. n : q[k] = W(k)
  BY <1>1, <1>2
<1> HIDE DEF q
<1>6. PICK P \in [0 .. n -> Seq(Bytes)] :
        P[0] = <<>> /\ P[n] = FlattenSeq(q) /\ \A k \in Nat : k < n => P[k + 1] = P[k] \o q[k + 1]
  <2>1. CASE n = 0
    <3>1. q = <<>>
      BY <1>5, <2>1
    <3>2. FlattenSeq(q) = <<>>
      BY <3>1, FlattenNone
    <3> DEFINE P == [k \in 0 .. n |-> <<>>]
    <3>3. P \in [0 .. n -> Seq(Bytes)] /\ P[0] = <<>>
      OBVIOUS
    <3> HIDE DEF P
    <3>4. P[n] = FlattenSeq(q)
      BY <2>1, <3>2, <3>3
    <3>5. \A k \in Nat : ~(k < n)
      BY <2>1
    <3>6. QED
      BY <3>3, <3>4, <3>5
  <2>2. CASE n # 0
    <3>1. PICK f : Joins(f, q, n) /\ FlattenSeq(q) = f[n]
      BY <1>5, <2>2, FlattenJoins
    <3>2. f[1] = q[1] /\ \A k \in Nat \ {0} : k < n => f[k + 1] = f[k] \o q[k + 1]
      BY <2>2, <3>1, JoinsSteps
    <3>3. \A k \in 1 .. n : f[k] \in Seq(Bytes) /\ q[k] \in Seq(Bytes)
      BY <1>2, <1>5, <3>1, JoinsType
    <3> DEFINE P == [k \in 0 .. n |-> IF k = 0 THEN <<>> ELSE f[k]]
    <3>4. P \in [0 .. n -> Seq(Bytes)]
      <4>1. \A k \in 0 .. n : k # 0 => k \in 1 .. n
        OBVIOUS
      <4>2. QED
        BY <3>3, <4>1
    <3>5. P[0] = <<>> /\ P[n] = FlattenSeq(q)
      BY <2>2, <3>1
    <3>6. ASSUME NEW k \in Nat, k < n
          PROVE  P[k + 1] = P[k] \o q[k + 1]
      <4>1. P[k + 1] = f[k + 1]
        BY <3>6
      <4>2. CASE k = 0
        <5>1. q[1] \in Seq(Bytes) /\ <<>> \o q[1] = q[1]
          <6>1. \A s \in Seq(Bytes) : <<>> \o s = s
            OBVIOUS
          <6>2. q[1] \in Seq(Bytes)
            BY <2>2, <3>3
          <6>3. QED
            BY <6>1, <6>2
        <5>2. P[k] = <<>>
          BY <4>2
        <5>3. QED
          BY <3>2, <4>1, <4>2, <5>1, <5>2
      <4>3. CASE k # 0
        <5>1. P[k] = f[k]
          BY <3>6, <4>3
        <5>2. f[k + 1] = f[k] \o q[k + 1]
          BY <3>2, <3>6, <4>3
        <5>3. QED
          BY <4>1, <5>1, <5>2
      <4>4. QED
        BY <4>2, <4>3
    <3>7. QED
      BY <3>4, <3>5, <3>6
  <2>3. QED
    BY <2>1, <2>2
<1>7. \A k \in Nat : k < n => /\ P[k] \in Seq(Bytes) /\ q[k + 1] \in Seq(Bytes) /\ P[k + 1] \in Seq(Bytes)
                              /\ P[k + 1] = P[k] \o q[k + 1] /\ k + 1 \in 1 .. n
  <2>1. ASSUME NEW k \in Nat, k < n
        PROVE  k \in 0 .. n /\ k + 1 \in 1 .. n /\ k + 1 \in 0 .. n
    BY <2>1
  <2>2. QED
    BY <1>2, <1>5, <1>6, <2>1
<1>8. P[0] \in Seq(Bytes) /\ P[n] \in Seq(Bytes) /\ Len(P[0]) = 0
  BY <1>6
<1> DEFINE ends == [k \in 0 .. n |-> headerLength + Len(P[k])]
<1>9. /\ ends \in [0 .. n -> Nat] /\ ends[0] = headerLength /\ ends[n] = headerLength + Len(P[n])
      /\ \A k \in Nat : k < n => ends[k] = headerLength + Len(P[k]) /\ ends[k + 1] = headerLength + Len(P[k + 1])
  BY <1>4, <1>6, <1>8
<1> HIDE DEF ends
<1>10. /\ buf \in Seq(Bytes) /\ Len(buf) = ends[n]
       /\ HasAt(buf, 1, header) /\ HasAt(buf, headerLength + 1, P[n])
  <2>1. PICK rest \in Seq(Bytes) : rest = P[n]
    BY <1>8
  <2>2. header \o rest \in Seq(Bytes) /\ Len(header \o rest) = Len(header) + Len(rest)
    BY <1>4
  <2>3. buf = header \o rest
    BY <1>3, <1>6, <2>1
  <2>4. HasAt(buf, 1, header \o rest)
    <3>1. \A s \in Seq(Bytes) : HasAt(s, 1, s)
      BY DEF HasAt
    <3>2. QED
      BY <2>2, <2>3, <3>1
  <2>5. HasAt(buf, 1, header) /\ HasAt(buf, 1 + Len(header), rest)
    <3>1. PICK at \in Nat \ {0} : at = 1
      OBVIOUS
    <3>2. HasAt(buf, at, header \o rest) /\ buf \in Seq(Bytes)
      BY <2>2, <2>3, <2>4, <3>1
    <3>3. HasAt(buf, at, header) /\ HasAt(buf, at + Len(header), rest)
      BY <1>4, <3>2, HasParts
    <3>4. QED
      BY <3>1, <3>3
  <2>6. 1 + Len(header) = headerLength + 1 /\ Len(buf) = headerLength + Len(rest)
    BY <1>4, <2>2, <2>3
  <2>7. QED
    BY <1>9, <2>1, <2>2, <2>3, <2>5, <2>6
<1> DEFINE Left == {j \in Nat : j <= n => HasAt(buf, headerLength + 1, P[n - j])}
<1>11. 0 \in Left
  BY <1>10
<1>12. ASSUME NEW k \in Nat, k < n, HasAt(buf, headerLength + 1, P[k + 1])
       PROVE  HasAt(buf, headerLength + 1, P[k]) /\ HasAt(buf, ends[k] + 1, q[k + 1])
  <2>1. P[k] \in Seq(Bytes) /\ q[k + 1] \in Seq(Bytes) /\ P[k + 1] = P[k] \o q[k + 1]
    BY <1>7, <1>12
  <2>2. headerLength + 1 \in Nat \ {0} /\ headerLength + 1 + Len(P[k]) = ends[k] + 1
    <3>1. PICK a \in Nat : a = Len(P[k])
      BY <2>1
    <3>2. ends[k] = headerLength + a
      BY <1>9, <1>12, <3>1
    <3>3. PICK h \in Nat : h = headerLength
      BY <1>4
    <3>4. h + 1 \in Nat \ {0} /\ h + 1 + a = h + a + 1
      OBVIOUS
    <3>5. QED
      BY <3>1, <3>2, <3>3, <3>4
  <2>3. HasAt(buf, headerLength + 1, P[k] \o q[k + 1])
    BY <1>12, <2>1
  <2>4. QED
    BY <1>10, <2>1, <2>2, <2>3, HasParts
<1>13. ASSUME NEW j \in Nat, j < n, j \in Left
       PROVE  j + 1 \in Left
  <2>1. PICK k \in Nat : k = n - (j + 1) /\ k + 1 = n - j /\ k < n
    BY <1>13
  <2>2. HasAt(buf, headerLength + 1, P[k + 1])
    BY <1>13, <2>1
  <2>3. HasAt(buf, headerLength + 1, P[k])
    BY <1>12, <2>1, <2>2
  <2>4. QED
    BY <2>1, <2>3
<1>14. 0 .. n \subseteq Left
  <2>1. Left \in SUBSET Nat
    OBVIOUS
  <2> HIDE DEF Left
  <2>2. QED
    BY <1>11, <1>13, <2>1, FromZero
<1>15. ASSUME NEW k \in Nat, k < n
       PROVE  /\ ends[k + 1] = ends[k] + BlockSize(blocks[k + 1])
              /\ HasAt(buf, ends[k] + 1, WriteBlock(blocks[k + 1]))
  <2>1. HasAt(buf, headerLength + 1, P[k + 1])
    <3>1. PICK j \in 0 .. n : j = n - (k + 1) /\ n - j = k + 1
      BY <1>15
    <3>2. QED
      <4>0. j <= n /\ j \in Nat
        OBVIOUS
      <4> HIDE DEF Left
      <4>1. j \in Left
        BY <1>14
      <4>2. HasAt(buf, headerLength + 1, P[n - j])
        BY <4>0, <4>1 DEF Left
      <4>3. QED
        BY <3>1, <4>2
  <2>2. HasAt(buf, ends[k] + 1, q[k + 1])
    BY <1>12, <1>15, <2>1
  <2>3. q[k + 1] = WriteBlock(blocks[k + 1]) /\ Len(q[k + 1]) = BlockSize(blocks[k + 1])
        /\ BlockSize(blocks[k + 1]) \in Nat
    BY <1>2, <1>5, <1>7, <1>15 DEF W
  <2>4. PICK u, w \in Seq(Bytes) : u = P[k] /\ w = q[k + 1] /\ P[k + 1] = u \o w
    BY <1>7, <1>15
  <2>5. Len(P[k + 1]) = Len(P[k]) + Len(q[k + 1])
    BY <2>4
  <2>6. ends[k + 1] = ends[k] + BlockSize(blocks[k + 1])
    <3>1. P[k] \in Seq(Bytes)
      BY <1>7, <1>15
    <3>2. PICK a \in Nat : a = Len(P[k])
      BY <3>1
    <3>3. PICK b \in Nat : b = BlockSize(blocks[k + 1])
      BY <2>3
    <3>4. ends[k] = headerLength + a /\ ends[k + 1] = headerLength + (a + b)
      BY <1>9, <1>15, <2>3, <2>5, <3>2, <3>3
    <3>5. QED
      BY <1>4, <3>3, <3>4
  <2>7. QED
    BY <2>2, <2>3, <2>6
<1>16. /\ ends \in [0 .. Len(blocks) -> Nat] /\ ends[0] = headerLength /\ Len(buf) = ends[Len(blocks)]
       /\ buf \in Seq(Bytes) /\ HasAt(buf, 1, header)
  BY <1>1, <1>9, <1>10
<1>17. QED
  BY <1>1, <1>15, <1>16 DEF buf, header

\* The blocks of a content fill it: none begins behind its end, and the keys alone
\* make it long enough for the client's steps.
LEMMA BlocksFill ==
  ASSUME NEW n \in Nat, NEW ends \in [0 .. n -> Nat], NEW size, ends[0] = headerLength,
         \A k \in Nat : k < n => size[k + 1] \in Nat /\ size[k + 1] >= KeyLength
                                 /\ ends[k + 1] = ends[k] + size[k + 1]
  PROVE  /\ \A k \in 0 .. n : ends[k] >= headerLength + KeyLength * k
         /\ \A k \in Nat : k < n => ends[k] < ends[n]
         /\ n <= ends[n] \div KeyLength
<1> DEFINE Far == {k \in Nat : k <= n => ends[k] >= headerLength + KeyLength * k}
           Left == {j \in Nat : j <= n => ends[n - j] <= ends[n]}
<1>1. 0 \in Far
  BY DEF headerLength, KeyLength
<1>2. ASSUME NEW k \in Nat, k < n, k \in Far
      PROVE  k + 1 \in Far
  <2>1. k \in 0 .. n /\ k + 1 \in 0 .. n
    BY <1>2
  <2>2. ends[k] \in Nat /\ ends[k + 1] \in Nat
    BY <2>1
  <2>3. ends[k + 1] >= ends[k] + 16
    <3>1. size[k + 1] \in Nat /\ size[k + 1] >= 16 /\ ends[k + 1] = ends[k] + size[k + 1]
      BY <1>2 DEF KeyLength
    <3>2. QED
      BY <2>2, <3>1
  <2>6. ends[k] >= 29 + 16 * k
    BY <1>2 DEF headerLength, KeyLength
  <2>4. ends[k + 1] >= 29 + 16 * (k + 1)
    BY <2>2, <2>3, <2>6
  <2>5. QED
    BY <2>4 DEF headerLength, KeyLength
<1>3. 0 .. n \subseteq Far
  <2>1. Far \in SUBSET Nat
    OBVIOUS
  <2> HIDE DEF Far
  <2>2. QED
    BY <1>1, <1>2, <2>1, FromZero
<1>4. 0 \in Left
  BY DEF headerLength, KeyLength
<1>5. ASSUME NEW j \in Nat, j < n, j \in Left
      PROVE  j + 1 \in Left
  <2>1. PICK k \in Nat : k = n - (j + 1) /\ k + 1 = n - j /\ k < n
    BY <1>5
  <2>2. ends[k + 1] <= ends[n]
    BY <1>5, <2>1
  <2>3. k \in 0 .. n /\ k + 1 \in 0 .. n /\ n \in 0 .. n
    BY <2>1
  <2>4. ends[k] <= ends[n]
    <3>1. ends[k] \in Nat /\ ends[k + 1] \in Nat /\ ends[n] \in Nat
      BY <2>3
    <3>2. size[k + 1] \in Nat /\ ends[k + 1] = ends[k] + size[k + 1]
      BY <2>1
    <3>3. QED
      BY <2>2, <3>1, <3>2
  <2>5. QED
    BY <2>1, <2>4
<1>6. 0 .. n \subseteq Left
  <2>1. Left \in SUBSET Nat
    OBVIOUS
  <2> HIDE DEF Left
  <2>2. QED
    BY <1>4, <1>5, <2>1, FromZero
<1>7. ASSUME NEW k \in Nat, k < n
      PROVE  ends[k] < ends[n]
  <2>1. PICK j \in 0 .. n : j = n - (k + 1) /\ n - j = k + 1
    BY <1>7
  <2>2. j <= n /\ j \in Nat
    OBVIOUS
  <2>3. ends[n - j] <= ends[n]
    <3>1. j \in Left
      <4> HIDE DEF Left
      <4>1. QED
        BY <1>6
    <3>2. QED
      BY <2>2, <3>1
  <2>4. ends[k + 1] <= ends[n]
    BY <2>1, <2>3
  <2>5. k \in 0 .. n /\ k + 1 \in 0 .. n /\ n \in 0 .. n
    BY <1>7
  <2>6. size[k + 1] \in Nat /\ size[k + 1] >= 16 /\ ends[k + 1] = ends[k] + size[k + 1]
    BY <1>7 DEF KeyLength
  <2>7. QED
    BY <2>4, <2>5, <2>6
<1>8. \A k \in 0 .. n : ends[k] >= headerLength + KeyLength * k
  <2>1. \A k \in 0 .. n : k \in Nat /\ k <= n
    OBVIOUS
  <2>2. QED
    BY <1>3, <2>1
<1>9. n <= ends[n] \div KeyLength
  <2>1. n \in 0 .. n
    OBVIOUS
  <2>2. ends[n] \in Nat /\ ends[n] >= 29 + 16 * n
    BY <1>8, <2>1 DEF headerLength, KeyLength
  <2>3. \A v \in Nat : v >= 29 + 16 * n => n <= v \div 16
    OBVIOUS
  <2>4. QED
    BY <2>2, <2>3 DEF KeyLength
<1>10. QED
  BY <1>7, <1>8, <1>9

\* What the server sends the client reads: the number of the first edit unit, how
\* many there are, and every block as it was made, whatever the items' bytes are.
THEOREM SentIsRead ==
  ASSUME NEW start \in Number, NEW blocks \in Seq(Blocks), Len(blocks) \in Number
  PROVE  ReadContent(Sent(start, Len(blocks), blocks)) =
           [start |-> start, count |-> Len(blocks), blocks |-> blocks]
<1>1. PICK n \in Nat : n = Len(blocks) /\ n \in Number
  BY NumberIs
<1>2. PICK buf : buf = Sent(start, n, blocks)
  OBVIOUS
<1>3. PICK ends \in [0 .. n -> Nat] :
        /\ buf \in Seq(Bytes) /\ ends[0] = headerLength /\ Len(buf) = ends[n]
        /\ HasAt(buf, 1, WriteTransferHeader(start, n))
        /\ \A k \in Nat : k < n => /\ ends[k + 1] = ends[k] + BlockSize(blocks[k + 1])
                                   /\ HasAt(buf, ends[k] + 1, WriteBlock(blocks[k + 1]))
  BY <1>1, <1>2, SentParts
<1>4. ReadTransferHeader(buf) = Read([start |-> start, count |-> n], headerLength + 1)
  BY <1>1, <1>3, HeaderIs
<1>5. \A k \in Nat : k < n => /\ blocks[k + 1] \in Blocks
                              /\ BlockSize(blocks[k + 1]) \in Nat
                              /\ BlockSize(blocks[k + 1]) >= KeyLength
  <2>1. \A k \in Nat : k < n => blocks[k + 1] \in Blocks
    BY <1>1
  <2>2. QED
    BY <2>1, BlockType
<1>6. (\A k \in Nat : k < n => ends[k] < ends[n]) /\ n <= ends[n] \div KeyLength
  <2> DEFINE size == [k \in 1 .. n |-> BlockSize(blocks[k])]
  <2>1. \A k \in Nat : k < n => k + 1 \in 1 .. n
    OBVIOUS
  <2>2. \A k \in Nat : k < n => size[k + 1] = BlockSize(blocks[k + 1])
    BY <2>1
  <2> HIDE DEF size
  <2>3. \A k \in Nat : k < n => size[k + 1] \in Nat /\ size[k + 1] >= KeyLength
                                /\ ends[k + 1] = ends[k] + size[k + 1]
    BY <1>3, <1>5, <2>2
  <2>4. QED
    BY <1>3, <2>3, BlocksFill
<1>7. PICK most \in Nat : most = Len(buf) \div KeyLength
  <2>1. ends[n] \div KeyLength \in Nat
    BY <1>3, DivMod DEF KeyLength
  <2>2. QED
    BY <1>3, <2>1
<1> DEFINE first == [consumed |-> headerLength, at |-> headerLength + 1, blocks |-> <<>>]
           g == CHOOSE f : FindsTo(f, buf, first, most)
<1>8. FindsTo(g, buf, first, most)
  BY FindsExists
<1>9. ReadContent(buf) = [start |-> start, count |-> n, blocks |-> g[most].blocks]
  BY <1>4, <1>7 DEF ReadContent, FindsTo, Read
<1> HIDE DEF g
<1>10. g[0] = first /\ \A k \in Nat : k < most => g[k + 1] = NextBlock(buf, g[k])
  <2> HIDE DEF first
  <2>1. QED
    BY <1>8, FindsSteps
<1> DEFINE At(m) == [consumed |-> ends[m], at |-> ends[m] + 1, blocks |-> SubSeq(blocks, 1, m)]
           Found == {k \in Nat : g[k] = At(IF k <= n THEN k ELSE n)}
<1>11. ASSUME NEW m \in Nat, m < n
       PROVE  NextBlock(buf, At(m)) = At(m + 1)
  <2>1. m \in 0 .. n /\ m + 1 \in 0 .. n /\ n \in 0 .. n
    BY <1>11
  <2>2. PICK e \in Nat : e = ends[m] /\ e < Len(buf) /\ Len(buf) \in Nat
    BY <1>3, <1>6, <1>11, <2>1
  <2>3. PICK block \in Blocks : block = blocks[m + 1]
    BY <1>5, <1>11
  <2>4. HasAt(buf, e + 1, WriteBlock(block)) /\ e + 1 \in Nat \ {0}
    BY <1>3, <1>11, <2>2, <2>3
  <2>5. ReadBlock(buf, e + 1) = Read(block, e + 1 + BlockSize(block))
    BY <1>3, <2>4, BlockIsRead
  <2>6. SubSeq(blocks, 1, m + 1) = Append(SubSeq(blocks, 1, m), block)
    BY <1>1, <1>11, <2>3, HeadOfSeq
  <2>7. PICK size \in Nat : size = BlockSize(block) /\ ends[m + 1] = e + size
    BY <1>3, <1>5, <1>11, <2>2, <2>3
  <2>8. e + 1 + size = e + size + 1 /\ ~(e >= Len(buf))
    BY <2>2
  <2>9. NextBlock(buf, At(m)) =
          [consumed |-> e + size, at |-> e + 1 + size, blocks |-> Append(SubSeq(blocks, 1, m), block)]
    <3>1. PICK before : before = SubSeq(blocks, 1, m)
      OBVIOUS
    <3>2. PICK read : read = [consumed |-> e, at |-> e + 1, blocks |-> before]
      OBVIOUS
    <3>3. read = At(m) /\ read.consumed = e /\ read.at = e + 1 /\ read.blocks = before
      BY <2>2, <3>1, <3>2
    <3>4. NextBlock(buf, read) = [consumed |-> read.consumed + BlockSize(ReadBlock(buf, read.at).value),
                                  at |-> ReadBlock(buf, read.at).at,
                                  blocks |-> Append(read.blocks, ReadBlock(buf, read.at).value)]
      BY <2>8, <3>3 DEF NextBlock
    <3>5. ReadBlock(buf, e + 1).value = block /\ ReadBlock(buf, e + 1).at = e + 1 + size
      BY <2>5, <2>7 DEF Read
    <3>6. BlockSize(block) = size
      BY <2>7
    <3> HIDE DEF At
    <3>7. QED
      BY <3>1, <3>3, <3>4, <3>5, <3>6
  <2>10. QED
    BY <2>6, <2>7, <2>8, <2>9
<1>12. NextBlock(buf, At(n)) = At(n)
  <2>1. ends[n] \in Nat /\ ends[n] >= Len(buf)
    <3>1. n \in 0 .. n
      OBVIOUS
    <3>2. QED
      BY <1>3, <3>1
  <2>2. QED
    BY <2>1 DEF NextBlock
<1>13. 0 \in Found
  <2>1. SubSeq(blocks, 1, 0) = <<>>
    BY HeadOfSeq
  <2>2. QED
    BY <1>3, <1>10, <2>1
<1> HIDE DEF At
<1>14. ASSUME NEW k \in Nat, k < most, k \in Found
       PROVE  k + 1 \in Found
  <2>1. g[k + 1] = NextBlock(buf, g[k])
    BY <1>10, <1>14
  <2>2. CASE k < n
    <3>1. g[k] = At(k) /\ k + 1 <= n
      BY <1>14, <2>2
    <3>2. QED
      BY <1>11, <2>1, <2>2, <3>1
  <2>3. CASE ~(k < n)
    <3>1. g[k] = At(n) /\ (k + 1 <= n <=> FALSE)
      BY <1>14, <2>3
    <3>2. QED
      BY <1>12, <2>1, <3>1
  <2>4. QED
    BY <2>2, <2>3
<1>15. most \in Found
  <2>1. Found \in SUBSET Nat
    OBVIOUS
  <2> HIDE DEF Found
  <2>2. 0 .. most \subseteq Found
    BY <1>13, <1>14, <2>1, FromZero
  <2>3. QED
    BY <2>2
<1>16. g[most] = At(n)
  <2>1. n <= most
    BY <1>3, <1>6, <1>7
  <2>2. most <= n => most = n
    BY <2>1
  <2>3. QED
    BY <1>15, <2>2
<1>17. SubSeq(blocks, 1, n) = blocks
  BY <1>1, HeadOfSeq
<1>18. QED
  BY <1>1, <1>2, <1>9, <1>16, <1>17 DEF At

-----------------------------------------------------------------------------
(* The data of a show: at most one file for a frame, and within its reel.  *)
Fits(s) == \A r \in 1 .. Len(s.reels) : HasFittingData(s.reels[r])

LEMMA AddReelFits ==
  ASSUME NEW s, Timeline(s), Fits(s), NEW reel \in Seq(Mapped), HasFittingData(reel)
  PROVE  Fits(AddReel(s, reel))
<1> DEFINE timed == [i \in DOMAIN reel |-> StartingAt(reel[i], s.frames)]
           t == AddReel(s, reel)
<1>1. DOMAIN timed = DOMAIN reel /\ \A i \in DOMAIN reel : timed[i] = StartingAt(reel[i], s.frames)
  OBVIOUS
<1>2. t.reels = Append(s.reels, timed)
  BY DEF AddReel
<1> HIDE DEF timed, t
<1>3. HasFittingData(timed)
  <2>1. \A i \in DOMAIN timed : timed[i].type = reel[i].type /\ timed[i].duration = reel[i].duration
    BY <1>1, StartingAtIs
  <2>2. QED
    BY <1>1, <2>1 DEF HasFittingData
<1>4. timed \in Seq(Timed)
  <2>1. \A i \in DOMAIN reel : timed[i] \in Timed
    BY <1>1, StartingAtType, TimelineType
  <2>2. PICK n \in Nat : DOMAIN timed = 1 .. n
    BY <1>1
  <2>3. timed = [i \in DOMAIN timed |-> timed[i]]
    BY DEF timed
  <2>4. QED
    BY <1>1, <2>1, <2>2, <2>3
<1>5. \A q \in Seq(Seq(Timed)) : \A x \in Seq(Timed) : \A r \in 1 .. Len(Append(q, x)) :
        Append(q, x)[r] = x \/ (r \in 1 .. Len(q) /\ Append(q, x)[r] = q[r])
  OBVIOUS
<1>6. \A r \in 1 .. Len(t.reels) : t.reels[r] = timed \/ (r \in 1 .. Len(s.reels) /\ t.reels[r] = s.reels[r])
  BY <1>2, <1>4, <1>5, TimelineType
<1>7. QED
  BY <1>3, <1>6 DEF Fits, t

LEMMA AddCPLFits ==
  ASSUME NEW s, Timeline(s), Fits(s), NEW f \in DOMAIN CPL, PicturesAreRegular, DataAreRegular
  PROVE  Fits(AddCPLToEndOfTimeline(s, Parse(f)))
<1> DEFINE reels == Parse(f)
<1>1. /\ reels \in Seq(Seq(Mapped)) /\ Len(reels) \in Nat
      /\ \A k \in 1 .. Len(reels) : /\ reels[k] \in Seq(Mapped) /\ HasOnePicture(reels[k])
                                    /\ HasFittingData(reels[k])
  <2>1. reels \in Seq(Seq(Mapped)) /\ DOMAIN reels = DOMAIN CPL[f]
    BY ParseType
  <2>2. \A k \in DOMAIN reels : HasOnePicture(reels[k]) /\ HasFittingData(reels[k])
    BY <2>1 DEF PicturesAreRegular, DataAreRegular
  <2> HIDE DEF reels
  <2>3. QED
    BY <2>1, <2>2
<1> HIDE DEF reels
<1> DEFINE g == CHOOSE g : AddsTo(g, s, reels, Len(reels))
<1>2. AddsTo(g, s, reels, Len(reels))
  BY <1>1, AddsExists
<1>3. AddCPLToEndOfTimeline(s, reels) = g[Len(reels)]
  BY DEF AddCPLToEndOfTimeline, AddsTo
<1> HIDE DEF g
<1>10. Len(reels) \in Nat
  BY <1>1
<1>4. g[0] = s /\ \A k \in Nat : k < Len(reels) => g[k + 1] = AddReel(g[k], reels[k + 1])
  BY <1>10, <1>2, AddsSteps
<1> DEFINE Holds == {k \in Nat : Timeline(g[k]) /\ Fits(g[k])}
<1>5. 0 \in Holds
  BY <1>4
<1>6. ASSUME NEW k \in Nat, k < Len(reels), k \in Holds
      PROVE  k + 1 \in Holds
  <2>1. k + 1 \in 1 .. Len(reels)
    BY <1>1, <1>6
  <2>2. PICK reel : reel = reels[k + 1]
    OBVIOUS
  <2>3. reel \in Seq(Mapped) /\ HasOnePicture(reel) /\ HasFittingData(reel)
    BY ONLY <1>1, <2>1, <2>2
  <2>4. Timeline(g[k]) /\ Fits(g[k])
    BY <1>6
  <2>5. g[k + 1] = AddReel(g[k], reel)
    BY <1>4, <1>6, <2>2
  <2>6. Timeline(AddReel(g[k], reel))
    BY ONLY <2>3, <2>4, AddReelKeeps
  <2>7. Fits(AddReel(g[k], reel))
    BY ONLY <2>3, <2>4, AddReelFits
  <2>8. QED
    BY <2>5, <2>6, <2>7
<1>7. Holds \in SUBSET Nat
  OBVIOUS
<1>8. 0 .. Len(reels) \subseteq Holds
  <2> HIDE DEF Holds
  <2>1. QED
    BY <1>1, <1>5, <1>6, <1>7, FromZero
<1>9. QED
  BY <1>1, <1>3, <1>8 DEF reels

LEMMA ShowOfFits ==
  ASSUME NEW files, Len(files) \in Nat, PicturesAreRegular, DataAreRegular
  PROVE  Timeline(ShowOf(files)) /\ Fits(ShowOf(files))
<1> DEFINE g == CHOOSE g : LoadsTo(g, files, Len(files))
<1>1. LoadsTo(g, files, Len(files))
  BY LoadsExists
<1>2. ShowOf(files) = g[Len(files)]
  BY DEF ShowOf, LoadsTo
<1> HIDE DEF g
<1>3. g[0] = EmptyShow /\ \A k \in Nat : k < Len(files) => g[k + 1] = AddFile(g[k], files[k + 1])
  BY <1>1, LoadsSteps
<1> DEFINE Holds == {k \in Nat : Timeline(g[k]) /\ Fits(g[k])}
<1>4. 0 \in Holds
  <2>1. Fits(EmptyShow)
    BY DEF Fits, EmptyShow
  <2>2. Timeline(EmptyShow)
    BY EmptyIsTimeline
  <2>3. QED
    BY <1>3, <2>1, <2>2
<1>5. ASSUME NEW k \in Nat, k < Len(files), k \in Holds
      PROVE  k + 1 \in Holds
  <2>1. PICK f : f = files[k + 1]
    OBVIOUS
  <2>2. g[k + 1] = AddFile(g[k], f) /\ Timeline(g[k]) /\ Fits(g[k])
    BY <1>3, <1>5, <2>1
  <2>3. CASE f \in DOMAIN CPL
    <3>1. Timeline(AddCPLToEndOfTimeline(g[k], Parse(f))) /\ Fits(AddCPLToEndOfTimeline(g[k], Parse(f)))
      BY ONLY <2>2, <2>3, AddCPLKeeps, AddCPLFits, PicturesAreRegular, DataAreRegular
    <3>2. QED
      BY <2>2, <2>3, <3>1 DEF AddFile, IsFileCPL
  <2>4. CASE f \notin DOMAIN CPL
    BY <2>2, <2>4 DEF AddFile, IsFileCPL
  <2>5. QED
    BY <2>3, <2>4
<1>6. Holds \in SUBSET Nat
  OBVIOUS
<1>7. 0 .. Len(files) \subseteq Holds
  <2> HIDE DEF Holds
  <2>1. QED
    BY <1>4, <1>5, <1>6, FromZero, SMTT(30)
<1>8. QED
  BY <1>2, <1>7

\* Where the data of a show are.
LEMMA DataPlaces ==
  ASSUME NEW s, Timeline(s), Fits(s), NEW ends, Follow(s, ends),
         NEW p \in PlacesOf(s, "AuxData")
  PROVE  /\ p \in Places(s) /\ p = <<p[1], p[2]>> /\ p[1] \in 1 .. Len(s.reels) /\ p[1] \in Nat
         /\ p[2] \in Nat /\ p[2] \in DOMAIN s.reels[p[1]]
         /\ AssetIn(s, p) = s.reels[p[1]][p[2]] /\ AssetIn(s, p) \in Timed
         /\ AssetIn(s, p).type = "AuxData"
         /\ AssetIn(s, p).startFrame = ends[p[1] - 1] /\ ends[p[1] - 1] \in Nat
         /\ AssetIn(s, p).duration \in Nat \ {0}
         /\ EndFrame(AssetIn(s, p)) = ends[p[1] - 1] + AssetIn(s, p).duration - 1
         /\ EndFrame(AssetIn(s, p)) < ends[p[1]] /\ ends[p[1]] \in Nat
         /\ \A q \in PlacesOf(s, "AuxData") : q[1] = p[1] => q = p
         /\ \A i \in DOMAIN s.reels[p[1]] : s.reels[p[1]][i].type = "MainPicture" => i < p[2]
<1>1. \A q \in PlacesOf(s, "AuxData") :
        /\ q \in Places(s) /\ AssetIn(s, q).type = "AuxData"
        /\ q = <<q[1], q[2]>> /\ q[1] \in 1 .. Len(s.reels) /\ q[1] \in Nat /\ q[2] \in Nat
        /\ q[2] \in DOMAIN s.reels[q[1]] /\ AssetIn(s, q) = s.reels[q[1]][q[2]]
  BY PlacesAre, TimelineType DEF PlacesOf
<1> DEFINE reel == s.reels[p[1]]
<1>2. HasOnePicture(reel) /\ HasFittingData(reel) /\ reel \in Seq(Timed) /\ p[2] \in DOMAIN reel
  BY <1>1, TimelineType DEF Follow, Fits
<1>3. PICK i \in DOMAIN reel : reel[i].type = "MainPicture" /\ reel[i].duration \in Nat
  BY <1>2 DEF HasOnePicture
<1>4. /\ reel[p[2]].duration \in 1 .. reel[i].duration
      /\ \A k \in DOMAIN reel : reel[k].type = "MainPicture" => k < p[2]
  BY <1>1, <1>2, <1>3 DEF HasFittingData
<1>5. /\ reel[p[2]].startFrame = ends[p[1] - 1] /\ ends[p[1]] = ends[p[1] - 1] + reel[i].duration
      /\ ends[p[1] - 1] \in Nat
  <2>1. PICK r \in 1 .. Len(s.reels) : r = p[1] /\ r \in Nat
    BY <1>1
  <2>2. /\ ends \in [0 .. Len(s.reels) -> Nat]
        /\ \A k \in DOMAIN reel :
             /\ reel[k].startFrame = ends[r - 1]
             /\ reel[k].type = "MainPicture" => ends[r] = ends[r - 1] + reel[k].duration
    BY <2>1 DEF Follow
  <2>3. r - 1 \in 0 .. Len(s.reels)
    BY ONLY <2>1, r \in 1 .. Len(s.reels), Len(s.reels) \in Nat, TimelineType, Timeline(s)
  <2>4. QED
    BY <1>2, <1>3, <2>1, <2>2, <2>3
<1>6. \A q \in PlacesOf(s, "AuxData") : q[1] = p[1] => q = p
  <2>1. TAKE q \in PlacesOf(s, "AuxData")
  <2>2. HAVE q[1] = p[1]
  <2>3. q[2] = p[2]
    BY <1>1, <1>2, <2>2 DEF HasFittingData
  <2>4. QED
    BY <1>1, <2>2, <2>3
<1>7. reel[p[2]] \in Timed
  BY <1>2
<1>8. AssetIn(s, p) = reel[p[2]]
  BY <1>1
<1> HIDE DEF reel
<1>9. /\ reel[p[2]].duration \in Nat \ {0}
      /\ EndFrame(reel[p[2]]) = ends[p[1] - 1] + reel[p[2]].duration - 1
      /\ EndFrame(reel[p[2]]) < ends[p[1]] /\ ends[p[1]] \in Nat
  BY <1>3, <1>4, <1>5 DEF EndFrame
<1>10. QED
  BY <1>1, <1>4, <1>5, <1>6, <1>7, <1>8, <1>9 DEF reel

\* No frame has data from two places, and data cover their first frame.
LEMMA OneDataAt ==
  ASSUME NEW s, Timeline(s), Fits(s), NEW f \in Nat,
         NEW p \in PlacesAt(s, f, "AuxData"), NEW q \in PlacesAt(s, f, "AuxData")
  PROVE  p = q
<1>1. PICK ends : Follow(s, ends)
  BY DEF Timeline
<1>2. \A x \in PlacesAt(s, f, "AuxData") :
        /\ x \in PlacesOf(s, "AuxData") /\ x[1] \in 1 .. Len(s.reels)
        /\ ends[x[1] - 1] <= f /\ f < ends[x[1]]
  <2>1. TAKE x \in PlacesAt(s, f, "AuxData")
  <2>2. x \in PlacesOf(s, "AuxData") /\ Covers(AssetIn(s, x), f)
    BY DEF PlacesAt
  <2>3. /\ x[1] \in 1 .. Len(s.reels) /\ AssetIn(s, x).startFrame = ends[x[1] - 1]
        /\ ends[x[1] - 1] \in Nat /\ ends[x[1]] \in Nat
        /\ EndFrame(AssetIn(s, x)) < ends[x[1]]
        /\ EndFrame(AssetIn(s, x)) = ends[x[1] - 1] + AssetIn(s, x).duration - 1
        /\ AssetIn(s, x).duration \in Nat
    BY <1>1, <2>2, DataPlaces
  <2>4. QED
    BY <2>2, <2>3 DEF Covers
<1>3. p[1] = q[1]
  BY <1>1, <1>2, OneReel
<1>4. QED
  BY <1>1, <1>2, <1>3, DataPlaces

LEMMA DataStart ==
  ASSUME NEW s, Timeline(s), Fits(s), NEW p \in PlacesOf(s, "AuxData")
  PROVE  /\ p \in PlacesAt(s, AssetIn(s, p).startFrame, "AuxData")
         /\ AssetIn(s, p).startFrame \in Nat /\ EndFrame(AssetIn(s, p)) \in Nat
         /\ AssetIn(s, p).duration \in Nat \ {0} /\ AssetIn(s, p) \in Timed
         /\ EndFrame(AssetIn(s, p)) = AssetIn(s, p).startFrame + AssetIn(s, p).duration - 1
<1>1. PICK ends : Follow(s, ends)
  BY DEF Timeline
<1>2. PICK a : a = AssetIn(s, p)
  OBVIOUS
<1>3. /\ a.startFrame \in Nat /\ a.duration \in Nat \ {0} /\ a \in Timed
      /\ EndFrame(a) = a.startFrame + a.duration - 1
  BY <1>1, <1>2, DataPlaces
<1>4. EndFrame(a) \in Nat /\ Covers(a, a.startFrame)
  BY <1>3 DEF Covers
<1>5. p \in PlacesAt(s, a.startFrame, "AuxData")
  BY <1>2, <1>4 DEF PlacesAt
<1>6. QED
  BY <1>2, <1>3, <1>4, <1>5

\* Where there are data there is a picture; if it has a duration, the frame's coding is
\* that of the data.
LEMMA ULType ==
  ASSUME NEW coding \in Seq(Bytes)
  PROVE  UL(coding) \in Seq(Bytes) /\ Len(UL(coding)) = KeyLength
<1>1. 0 \in Bytes
  BY ByteAssumption DEF Bytes
<1>2. NoUL \in Seq(Bytes) /\ Len(NoUL) = KeyLength
  BY <1>1 DEF NoUL, KeyLength
<1>3. QED
  BY <1>2 DEF UL

LEMMA CodingType == \A a \in Timed : a.coding \in Seq(Bytes)
<1>1. \A a \in Elements : a.coding \in Seq(Bytes)
  BY ShowManagerAssumption DEF Bytes
<1>2. \A a \in Mapped : a.coding \in Seq(Bytes)
  BY <1>1 DEF Mapped, MapAsset
<1>3. QED
  BY <1>2 DEF Timed

LEMMA InfoOfData ==
  ASSUME NEW s, Timeline(s), Fits(s), NEW f \in Nat, NEW p \in PlacesAt(s, f, "AuxData")
  PROVE  /\ FrameInfo(s, f).coding \in Seq(Bytes)
         /\ \E x \in PlacesAt(s, f, "MainPicture") :
              /\ FrameInfo(s, f).rate = <<AssetIn(s, x).fps, 1>> /\ AssetIn(s, x).fps \in 1 .. SampleRate
              /\ \/ AssetIn(s, x).duration = 0
                 \/ FrameInfo(s, f).coding = AssetIn(s, p).coding
<1>1. PICK ends : Follow(s, ends)
  BY DEF Timeline
<1>2. p \in PlacesOf(s, "AuxData") /\ Covers(AssetIn(s, p), f)
  BY DEF PlacesAt
<1>3. /\ p[1] \in 1 .. Len(s.reels) /\ p[2] \in Nat /\ p[1] \in Nat
      /\ ends[p[1] - 1] <= f /\ f < ends[p[1]]
  <2>1. PICK a : a = AssetIn(s, p)
    OBVIOUS
  <2>2. /\ p[1] \in 1 .. Len(s.reels) /\ p[2] \in Nat /\ p[1] \in Nat /\ a.startFrame = ends[p[1] - 1]
        /\ ends[p[1] - 1] \in Nat /\ ends[p[1]] \in Nat /\ EndFrame(a) < ends[p[1]]
        /\ EndFrame(a) = ends[p[1] - 1] + a.duration - 1 /\ a.duration \in Nat \ {0}
    BY <1>1, <1>2, <2>1, DataPlaces
  <2>3. EndFrame(a) \in Nat /\ a.startFrame <= f /\ f <= EndFrame(a)
    BY <1>2, <2>1, <2>2 DEF Covers
  <2>4. QED
    BY <2>2, <2>3
<1> DEFINE shown == PlacesAt(s, f, "MainPicture")
           first == FirstOf(shown)
           After(type) == {x \in PlacesOf(s, type) : x[1] = first[1] /\ Before(first, x)}
           Latest(type) == AssetIn(s, LastOf(After(type)))
<1>4. shown # {}
  <2>1. s.frames \in Nat /\ f < s.frames
    <3>1. Len(s.reels) \in Nat /\ Len(s.reels) \in 0 .. Len(s.reels) /\ p[1] \in 0 .. Len(s.reels)
      BY <1>3, TimelineType
    <3>2. ends[p[1]] <= ends[Len(s.reels)] /\ ends[p[1]] \in Nat /\ ends[Len(s.reels)] \in Nat
      BY <1>1, <3>1, ReelsAscend
    <3>3. ends[Len(s.reels)] = s.frames
      BY <1>1 DEF Follow
    <3>4. QED
      BY <1>3, <3>2, <3>3
  <2>2. f \in 0 .. s.frames - 1 /\ s.frames # 0
    BY <2>1
  <2>3. QED
    BY <2>2, TimelineIsShown
<1>5. FrameInfo(s, f).found /\ first \in shown /\ FrameInfo(s, f).rate = <<AssetIn(s, first).fps, 1>>
  BY <1>4, FrameInfoIs
<1>6. FrameInfo(s, f).coding = IF After("AuxData") = {} THEN <<>> ELSE Latest("AuxData").coding
  BY <1>4 DEF FrameInfo
<1> HIDE DEF shown, first
<1>7. /\ first[1] \in 1 .. Len(s.reels) /\ first[1] \in Nat /\ first[2] \in Nat
      /\ first[2] \in DOMAIN s.reels[first[1]] /\ s.reels[first[1]][first[2]].type = "MainPicture"
      /\ AssetIn(s, first).fps \in 1 .. SampleRate
      /\ ends[first[1] - 1] <= f
      /\ AssetIn(s, first).duration # 0 => f < ends[first[1]]
  <2>1. first \in PlacesAt(s, f, "MainPicture")
    BY <1>5 DEF shown
  <2>2. QED
    BY <1>1, <2>1, PicturesAt
<1>8. After("AuxData") = {} \/ \E x \in PlacesOf(s, "AuxData") : After("AuxData") = {x} /\ x[1] = first[1]
  <2>1. SUFFICES ASSUME NEW x \in After("AuxData") PROVE After("AuxData") = {x}
    OBVIOUS
  <2>2. \A y \in PlacesOf(s, "AuxData") : y[1] = x[1] => y = x
    BY <1>1, <2>1, DataPlaces
  <2>3. QED
    BY <2>1, <2>2
<1>9. FrameInfo(s, f).coding \in Seq(Bytes)
  <2>1. CASE After("AuxData") = {}
    BY <1>6, <2>1
  <2>2. ASSUME NEW x \in PlacesOf(s, "AuxData"), After("AuxData") = {x}
        PROVE  FrameInfo(s, f).coding \in Seq(Bytes)
    <3>1. x[1] \in Nat /\ x[2] \in Nat /\ AssetIn(s, x) \in Timed
      BY <1>1, DataPlaces
    <3>2. LastOf(After("AuxData")) = x
      BY <2>2, <3>1, LastOfOne
    <3>3. FrameInfo(s, f).coding = AssetIn(s, x).coding
      BY <1>6, <2>2, <3>2
    <3>4. QED
      BY <3>1, <3>3, CodingType
  <2>3. QED
    BY <1>8, <2>1, <2>2
<1>10. ASSUME AssetIn(s, first).duration # 0
       PROVE  FrameInfo(s, f).coding = AssetIn(s, p).coding
  <2>1. first[1] = p[1]
    BY <1>1, <1>3, <1>7, <1>10, OneReel
  <2>2. first[2] < p[2]
    <3>1. \A i \in DOMAIN s.reels[p[1]] : s.reels[p[1]][i].type = "MainPicture" => i < p[2]
      BY <1>1, <1>2, DataPlaces
    <3>2. QED
      BY <1>7, <2>1, <3>1
  <2>3. p \in After("AuxData")
    BY <1>2, <1>3, <1>7, <2>1, <2>2 DEF Before
  <2>4. After("AuxData") = {p}
    BY <1>8, <2>3
  <2>5. LastOf(After("AuxData")) = p
    BY <1>3, <2>4, LastOfOne
  <2>6. QED
    BY <1>6, <2>4, <2>5
<1>11. QED
  BY <1>5, <1>7, <1>9, <1>10 DEF shown

-----------------------------------------------------------------------------
(* One data item: its parser, and its block.                               *)

\* The conditions of UnitsAreRight on a block.
BlockIsRight(block, frame) ==
  /\ block.editUnit = frame
  /\ \E u \in UnitsAt(frame) : block.dataItem = u.dataItem
  /\ block.cryptographicContext = <<>>
  /\ \E p \in PlacesAt(show, frame, "MainPicture") :
       /\ block.rateNumerator = AssetIn(show, p).fps /\ block.rateDenominator = 1
       /\ \/ AssetIn(show, p).duration = 0
          \/ \E a \in PlacesAt(show, frame, "AuxData") : block.codingUL = UL(AssetIn(show, a).coding)

LEMMA BlockOfData ==
  ASSUME Timeline(show), Fits(show), NEW frame \in Nat, frame \in Number, NumbersFit,
         NEW p \in PlacesAt(show, frame, "AuxData"), NEW item \in Data,
         \E u \in UnitsAt(frame) : item = u.dataItem
  PROVE  DataBlock(frame, item) \in Blocks /\ BlockIsRight(DataBlock(frame, item), frame)
<1> DEFINE info == FrameInfo(show, frame)
<1>1. PICK x \in PlacesAt(show, frame, "MainPicture") :
        /\ info.rate = <<AssetIn(show, x).fps, 1>> /\ AssetIn(show, x).fps \in 1 .. SampleRate
        /\ AssetIn(show, x).duration = 0 \/ info.coding = AssetIn(show, p).coding
  BY InfoOfData
<1>2. info.coding \in Seq(Bytes)
  BY InfoOfData
<1> HIDE DEF info
<1>3. PICK fps \in 1 .. SampleRate : fps = AssetIn(show, x).fps
  BY <1>1
<1>4. info.rate[1] = fps /\ info.rate[2] = 1
  BY <1>1, <1>3
<1>5. fps \in Number /\ 1 \in Number /\ <<>> \in Data
  <2>1. SampleRate \in Nat /\ SampleRate < Byte * Byte * Byte * Byte
    BY ShowAssumption DEF NumbersFit
  <2>2. PICK most : most = Byte * Byte * Byte * Byte
    OBVIOUS
  <2>3. fps \in 0 .. most - 1
    <3>1. most \in Int
      BY <2>2, ByteAssumption
    <3>2. QED
      BY <2>1, <2>2, <3>1
  <2>4. 0 \in Number /\ 1 \in Number
    BY NumberIs
  <2>5. QED
    BY <2>2, <2>3, <2>4 DEF Number, Data
<1>6. PICK ul : ul = UL(info.coding) /\ ul \in Seq(Bytes) /\ Len(ul) = KeyLength
  BY <1>2, ULType
<1> DEFINE block == [editUnit |-> frame, rateNumerator |-> fps, rateDenominator |-> 1, codingUL |-> ul,
                     dataItem |-> item, cryptographicContext |-> <<>>]
<1>7. DataBlock(frame, item) = block
  BY <1>4, <1>6 DEF DataBlock, info
<1>8. block \in Blocks
  BY <1>5, <1>6 DEF Blocks
<1>9. BlockIsRight(block, frame)
  <2>1. \/ AssetIn(show, x).duration = 0
        \/ \E a \in PlacesAt(show, frame, "AuxData") : ul = UL(AssetIn(show, a).coding)
    BY <1>1, <1>6
  <2>2. QED
    BY <1>3, <2>1 DEF BlockIsRight
<1>10. QED
  BY <1>7, <1>8, <1>9

\* A parser for the show that is loaded is that of some of its data.
ParserIsRight(q) ==
  \E p \in PlacesOf(show, "AuxData") :
    /\ q.start = AssetIn(show, p).startFrame /\ q.end = EndFrame(AssetIn(show, p))
    /\ q.path = AssetIn(show, p).path
    /\ q.open => q.path \in DOMAIN Items
    /\ ~q.open => q.path \notin DOMAIN Items \/ q.path \in Unreliable

Kept(q) ==
  q # Null => /\ q.for \in Nat /\ q.for <= generation
              /\ q.for = generation => show # Null /\ ParserIsRight(q)

Current(q) == q = Null \/ q.for = generation

LEMMA OpenIs ==
  ASSUME Timeline(show), Fits(show), generation \in Nat, NEW frame \in Nat,
         NEW missing \in SUBSET Unreliable
  PROVE  /\ Kept(OpenAuxDataParser(frame, missing))
         /\ IF PlacesAt(show, frame, "AuxData") = {} THEN OpenAuxDataParser(frame, missing) = Null
            ELSE /\ OpenAuxDataParser(frame, missing) # Null
                 /\ OpenAuxDataParser(frame, missing).for = generation
                 /\ InRange(OpenAuxDataParser(frame, missing), frame)
<1> DEFINE found == PlacesAt(show, frame, "AuxData")
<1>1. CASE found = {}
  <2>1. OpenAuxDataParser(frame, missing) = Null
    BY <1>1 DEF OpenAuxDataParser
  <2>2. QED
    BY <1>1, <2>1 DEF Kept
<1>2. ASSUME found # {}
      PROVE  /\ Kept(OpenAuxDataParser(frame, missing))
             /\ OpenAuxDataParser(frame, missing) # Null
             /\ OpenAuxDataParser(frame, missing).for = generation
             /\ InRange(OpenAuxDataParser(frame, missing), frame)
  <2>1. \A f \in Nat : \A p \in PlacesAt(show, f, "AuxData") : FirstOf(PlacesAt(show, f, "AuxData")) = p
    <3>1. TAKE f \in Nat
    <3>2. TAKE p \in PlacesAt(show, f, "AuxData")
    <3>3. \A q \in PlacesAt(show, f, "AuxData") : q = p
      BY OneDataAt
    <3>4. p[1] \in Nat /\ p[2] \in Nat
      <4>1. PICK ends : Follow(show, ends)
        BY DEF Timeline
      <4>2. p \in PlacesOf(show, "AuxData")
        BY DEF PlacesAt
      <4>3. QED
        BY <4>1, <4>2, DataPlaces
    <3>5. PICK P : P = PlacesAt(show, f, "AuxData")
      OBVIOUS
    <3>6. FirstOf(P) \in P
      BY <3>3, <3>4, <3>5, FirstOfIs
    <3>7. QED
      BY <3>3, <3>5, <3>6
  <2>2. PICK p : p \in found
    BY <1>2
  <2>3. p \in PlacesOf(show, "AuxData") /\ Covers(AssetIn(show, p), frame)
    BY <2>2 DEF PlacesAt
  <2>4. PICK a : a = AssetIn(show, p)
    OBVIOUS
  <2>5. /\ p \in PlacesAt(show, a.startFrame, "AuxData") /\ a.startFrame \in Nat
        /\ EndFrame(a) \in Nat /\ a \in Timed
    BY <2>3, <2>4, DataStart
  <2>6. FirstOf(found) = p /\ FirstOf(PlacesAt(show, a.startFrame, "AuxData")) = p
    BY <2>1, <2>2, <2>5
  <2> DEFINE q == [start |-> a.startFrame, end |-> EndFrame(a), path |-> a.path,
                   open |-> a.path \in DOMAIN Items \ missing, for |-> generation]
  <2>7. OpenAuxDataParser(frame, missing) = q
    BY <1>2, <2>4, <2>6 DEF OpenAuxDataParser
  <2>8. q \in AuxDataParsers
    <3>1. a.path \in {m.path : m \in Mapped}
      BY <2>5 DEF Timed
    <3>2. (a.path \in DOMAIN Items \ missing) \in BOOLEAN
      OBVIOUS
    <3>3. QED
      BY <2>5, <3>1, <3>2 DEF AuxDataParsers
  <2>9. q # Null
    BY <2>8, ShowManagerAssumption
  <2>10. InRange(q, frame)
    BY <2>3, <2>4 DEF InRange, Covers
  <2>11. ParserIsRight(q)
    BY <2>3, <2>4 DEF ParserIsRight
  <2>12. show # Null
    BY ShowAssumption, TimelineType
  <2>13. Kept(q) /\ q.for = generation
    BY <2>11, <2>12 DEF Kept
  <2>14. QED
    BY <2>7, <2>9, <2>10, <2>13
<1>3. QED
  BY <1>1, <1>2

\* What an asset has for a frame.
LEMMA UnitsAre ==
  ASSUME Timeline(show), Fits(show), NEW frame \in Nat
  PROVE  /\ \A u \in UnitsAt(frame) : \E p \in PlacesAt(show, frame, "AuxData") :
              /\ u.path = AssetIn(show, p).path /\ u.path \in DOMAIN Items
              /\ frame - AssetIn(show, p).startFrame < Len(Items[u.path])
         /\ \A p \in PlacesAt(show, frame, "AuxData") :
              LET a == AssetIn(show, p)
              IN  /\ frame - a.startFrame \in Nat
                  /\ a.path \in DOMAIN Items /\ frame - a.startFrame < Len(Items[a.path]) =>
                       [path |-> a.path, dataItem |-> Items[a.path][frame - a.startFrame + 1]]
                          \in UnitsAt(frame)
<1>1. ASSUME NEW u \in UnitsAt(frame)
      PROVE  \E p \in PlacesAt(show, frame, "AuxData") :
               /\ u.path = AssetIn(show, p).path /\ u.path \in DOMAIN Items
               /\ frame - AssetIn(show, p).startFrame < Len(Items[u.path])
  <2>1. PICK p \in PlacesOf(show, "AuxData") :
          /\ u.path = AssetIn(show, p).path /\ u.path \in DOMAIN Items
          /\ frame - AssetIn(show, p).startFrame \in 0 .. AssetIn(show, p).duration - 1
          /\ frame - AssetIn(show, p).startFrame < Len(Items[u.path])
    BY <1>1 DEF UnitsAt
  <2>2. PICK a : a = AssetIn(show, p)
    OBVIOUS
  <2>3. /\ a.startFrame \in Nat /\ a.duration \in Nat \ {0}
        /\ EndFrame(a) = a.startFrame + a.duration - 1
    BY <2>2, DataStart
  <2>4. Covers(a, frame)
    BY <2>1, <2>2, <2>3 DEF Covers
  <2>5. p \in PlacesAt(show, frame, "AuxData")
    BY <2>2, <2>4 DEF PlacesAt
  <2>6. QED
    BY <2>1, <2>5
<1>2. ASSUME NEW p \in PlacesAt(show, frame, "AuxData"), NEW a, a = AssetIn(show, p)
      PROVE  /\ frame - a.startFrame \in Nat
             /\ a.path \in DOMAIN Items /\ frame - a.startFrame < Len(Items[a.path]) =>
                  [path |-> a.path, dataItem |-> Items[a.path][frame - a.startFrame + 1]]
                     \in UnitsAt(frame)
  <2>1. p \in PlacesOf(show, "AuxData") /\ Covers(a, frame)
    BY <1>2 DEF PlacesAt
  <2>2. /\ a.startFrame \in Nat /\ a.duration \in Nat \ {0}
        /\ EndFrame(a) = a.startFrame + a.duration - 1
    BY <1>2, <2>1, DataStart
  <2>3. frame - a.startFrame \in 0 .. a.duration - 1
    BY <2>1, <2>2 DEF Covers
  <2>4. a \in {AssetIn(show, x) : x \in PlacesOf(show, "AuxData")}
    BY <1>2, <2>1
  <2> DEFINE has == {x \in {AssetIn(show, y) : y \in PlacesOf(show, "AuxData")} :
                       /\ x.path \in DOMAIN Items
                       /\ frame - x.startFrame \in 0 .. x.duration - 1
                       /\ frame - x.startFrame < Len(Items[x.path])}
             Unit(x) == [path |-> x.path, dataItem |-> Items[x.path][frame - x.startFrame + 1]]
  <2>5. UnitsAt(frame) = {Unit(x) : x \in has}
    BY DEF UnitsAt
  <2>6. a.path \in DOMAIN Items /\ frame - a.startFrame < Len(Items[a.path]) => a \in has
    BY <2>3, <2>4
  <2> HIDE DEF has
  <2>7. a \in has => Unit(a) \in UnitsAt(frame)
    BY <2>5
  <2>8. frame - a.startFrame \in Nat
    BY <2>3
  <2>9. QED
    BY <2>6, <2>7, <2>8, Zenon
<1>3. QED
  BY <1>1, <1>2

\* f[i] is what was read after i frames.
ReadsTo(f, first, start, missing, n) ==
  f = [i \in 0 .. n |-> IF i = 0 THEN first ELSE NextDataItem(f[i - 1], start + i - 1, missing)]

LEMMA ReadsExists ==
  ASSUME NEW first, NEW start \in Nat, NEW missing, NEW n \in Nat
  PROVE  \E f : ReadsTo(f, first, start, missing, n)
<1> DEFINE base == first
           Step(x, i) == NextDataItem(x, start + i - 1, missing)
           Holds == {k \in Nat : \E f : f = [i \in 0 .. k |-> IF i = 0 THEN base ELSE Step(f[i - 1], i)]}
<1> HIDE DEF base, Step
<1>1. 0 \in Holds
  <2> DEFINE f == [i \in 0 .. 0 |-> base]
  <2>1. f = [i \in 0 .. 0 |-> IF i = 0 THEN base ELSE Step(f[i - 1], i)]
    OBVIOUS
  <2>2. QED
    BY <2>1
<1>2. ASSUME NEW k \in Nat, k < n, k \in Holds
      PROVE  k + 1 \in Holds
  <2>1. PICK f : f = [i \in 0 .. k |-> IF i = 0 THEN base ELSE Step(f[i - 1], i)]
    BY <1>2
  <2> DEFINE g == [i \in 0 .. k + 1 |-> IF i = 0 THEN base ELSE Step(f[i - 1], i)]
             h == [i \in 0 .. k + 1 |-> IF i = 0 THEN base ELSE Step(g[i - 1], i)]
  <2>2. \A i \in 0 .. k : g[i] = f[i]
    BY <2>1
  <2>3. \A i \in 0 .. k + 1 : g[i] = h[i]
    <3>1. \A i \in 0 .. k + 1 : i # 0 => i - 1 \in 0 .. k
      OBVIOUS
    <3>2. QED
      BY <2>2, <3>1
  <2>4. g = h
    BY <2>3
  <2> HIDE DEF g
  <2>5. QED
    BY <2>4
<1>3. 0 .. n \subseteq Holds
  <2>1. Holds \in SUBSET Nat
    OBVIOUS
  <2> HIDE DEF Holds
  <2>2. QED
    BY <1>1, <1>2, <2>1, FromZero
<1>4. QED
  BY <1>3 DEF ReadsTo, base, Step

LEMMA ReadsSteps ==
  ASSUME NEW first, NEW start \in Nat, NEW missing, NEW n \in Nat, NEW f, ReadsTo(f, first, start, missing, n)
  PROVE  /\ f[0] = first
         /\ \A k \in Nat : k < n => f[k + 1] = NextDataItem(f[k], start + (k + 1) - 1, missing)
<1> DEFINE base == first
           Step(x, i) == NextDataItem(x, start + i - 1, missing)
<1>1. f = [i \in 0 .. n |-> IF i = 0 THEN base ELSE Step(f[i - 1], i)]
  BY DEF ReadsTo
<1> HIDE DEF base, Step
<1>2. f[0] = base
  BY <1>1
<1>3. ASSUME NEW k \in Nat, k < n
      PROVE  f[k + 1] = Step(f[k], k + 1)
  <2>1. k + 1 \in 0 .. n /\ k + 1 # 0 /\ (k + 1) - 1 = k
    BY <1>3
  <2>2. f[k + 1] = Step(f[(k + 1) - 1], k + 1)
    BY <1>1, <2>1
  <2>3. QED
    BY <2>1, <2>2
<1>4. QED
  BY <1>2, <1>3 DEF base, Step

\* An item that is not found is not there, or its file does not always open.
ItemIsRight(unit, frame) ==
  /\ unit = <<>> => \A u \in UnitsAt(frame) : u.path \in Unreliable
  /\ unit # <<>> => \E p \in PlacesAt(show, frame, "AuxData") :
                      unit[1] \in Data /\ \E u \in UnitsAt(frame) : unit[1] = u.dataItem

LEMMA ItemIs ==
  ASSUME Timeline(show), Fits(show), NumbersFit, generation \in Nat, NEW frame \in Nat,
         NEW missing \in SUBSET Unreliable, NEW q, Kept(q),
         NEW opened, opened = IF q # Null /\ InRange(q, frame) THEN q ELSE OpenAuxDataParser(frame, missing),
         NEW unit, unit = IF opened = Null THEN <<>> ELSE GetDataItem(opened, frame)
  PROVE  Kept(opened) /\ (Current(q) => Current(opened) /\ ItemIsRight(unit, frame))
<1>1. Kept(opened)
  BY OpenIs
<1>2. ASSUME Current(q)
      PROVE  \/ opened = Null /\ PlacesAt(show, frame, "AuxData") = {}
             \/ opened # Null /\ opened.for = generation /\ InRange(opened, frame)
  <2>1. CASE q # Null /\ InRange(q, frame)
    BY <1>2, <2>1 DEF Current
  <2>2. CASE ~(q # Null /\ InRange(q, frame))
    <3>1. opened = OpenAuxDataParser(frame, missing)
      BY <2>2
    <3>2. QED
      BY <3>1, OpenIs
  <2>3. QED
    BY <2>1, <2>2
<1>3. CASE opened = Null
  <2>1. unit = <<>>
    BY <1>3
  <2>2. PlacesAt(show, frame, "AuxData") = {} => UnitsAt(frame) = {}
    BY UnitsAre
  <2>3. Current(opened)
    BY <1>3 DEF Current
  <2>4. QED
    BY <1>1, <1>2, <1>3, <2>1, <2>2, <2>3 DEF ItemIsRight
<1>4. ASSUME opened # Null, Current(q)
      PROVE  Current(opened) /\ ItemIsRight(unit, frame)
  <2>1. opened.for = generation /\ InRange(opened, frame)
    BY <1>2, <1>4
  <2>2. ParserIsRight(opened)
    BY <1>1, <1>4, <2>1 DEF Kept
  <2>3. PICK p \in PlacesOf(show, "AuxData") :
          /\ opened.start = AssetIn(show, p).startFrame /\ opened.end = EndFrame(AssetIn(show, p))
          /\ opened.path = AssetIn(show, p).path
          /\ opened.open => opened.path \in DOMAIN Items
          /\ ~opened.open => opened.path \notin DOMAIN Items \/ opened.path \in Unreliable
    BY <2>2 DEF ParserIsRight
  <2>4. p \in PlacesAt(show, frame, "AuxData")
    BY <2>1, <2>3 DEF InRange, PlacesAt, Covers
  <2>5. PICK item \in Nat : item = frame - opened.start
    BY <2>3, <2>4, UnitsAre
  <2>6. unit = IF opened.open /\ item >= 0 /\ item < Len(Items[opened.path])
               THEN <<Items[opened.path][item + 1]>> ELSE <<>>
    BY <1>4, <2>5 DEF GetDataItem
  <2>7. CASE opened.open /\ item < Len(Items[opened.path])
    <3>1. unit = <<Items[opened.path][item + 1]>> /\ opened.path \in DOMAIN Items
      <4>1. opened.path \in DOMAIN Items
        BY <2>3, <2>7
      <4>2. item >= 0
        OBVIOUS
      <4>3. QED
        BY <2>6, <2>7, <4>1, <4>2, Zenon
    <3>2. Items[opened.path][item + 1] \in Data
      <4>1. PICK file \in Seq(Seq(Bytes)) : file = Items[opened.path]
        BY <3>1, ShowManagerAssumption DEF Bytes
      <4>2. item + 1 \in DOMAIN file /\ file[item + 1] \in Seq(Bytes)
        BY <2>7, <4>1
      <4>3. Len(file[item + 1]) < Byte * Byte * Byte * Byte
        BY <3>1, <4>1, <4>2 DEF NumbersFit
      <4>4. PICK most : most = Byte * Byte * Byte * Byte
        OBVIOUS
      <4>5. most \in Int /\ Len(file[item + 1]) \in Nat
        BY <4>2, <4>4, ByteAssumption
      <4>6. Len(file[item + 1]) \in 0 .. most - 1
        BY <4>3, <4>4, <4>5
      <4>7. QED
        BY <4>1, <4>2, <4>4, <4>6 DEF Data, Number
    <3>3. PICK u \in UnitsAt(frame) : u.dataItem = Items[opened.path][item + 1]
      <4>1. PICK a : a = AssetIn(show, p)
        OBVIOUS
      <4>2. a.path \in DOMAIN Items /\ frame - a.startFrame < Len(Items[a.path]) =>
              [path |-> a.path, dataItem |-> Items[a.path][frame - a.startFrame + 1]] \in UnitsAt(frame)
        BY <2>4, <4>1, UnitsAre
      <4>3. a.path = opened.path /\ frame - a.startFrame = item
        BY <2>3, <2>5, <4>1
      <4>4. [path |-> a.path, dataItem |-> Items[opened.path][item + 1]] \in UnitsAt(frame)
        BY <2>7, <3>1, <4>2, <4>3
      <4>5. QED
        BY <4>4
    <3>4. unit # <<>> /\ unit[1] = Items[opened.path][item + 1]
      <4>1. \A x : <<x>> # <<>> /\ <<x>>[1] = x
        OBVIOUS
      <4>2. QED
        BY ONLY <3>1, <4>1
    <3>5. Current(opened)
      BY <2>1 DEF Current
    <3>6. QED
      BY <2>4, <3>2, <3>3, <3>4, <3>5 DEF ItemIsRight
  <2>8. CASE ~(opened.open /\ item < Len(Items[opened.path]))
    <3>1. unit = <<>>
      BY <2>6, <2>8
    <3>2. ASSUME NEW u \in UnitsAt(frame)
          PROVE  u.path \in Unreliable
      <4>1. PICK x \in PlacesAt(show, frame, "AuxData") :
              /\ u.path = AssetIn(show, x).path /\ u.path \in DOMAIN Items
              /\ frame - AssetIn(show, x).startFrame < Len(Items[u.path])
        BY UnitsAre
      <4>2. x = p
        BY <2>4, OneDataAt
      <4>3. u.path = opened.path /\ item < Len(Items[opened.path])
        BY <2>3, <2>5, <4>1, <4>2
      <4>4. QED
        BY <2>3, <2>8, <4>1, <4>3
    <3>3. QED
      BY <2>1, <3>1, <3>2 DEF Current, ItemIsRight
  <2>9. QED
    BY <2>7, <2>8
<1>5. QED
  BY <1>1, <1>3, <1>4

LEMMA NextDataItemIs ==
  ASSUME NEW read, NEW q, read.parser = q, NEW frame, NEW missing,
         NEW opened, opened = IF q # Null /\ InRange(q, frame) THEN q ELSE OpenAuxDataParser(frame, missing),
         NEW unit, unit = IF opened = Null THEN <<>> ELSE GetDataItem(opened, frame)
  PROVE  /\ ~read.goesOn => NextDataItem(read, frame, missing) = read
         /\ read.goesOn /\ unit = <<>> =>
              NextDataItem(read, frame, missing) = [parser |-> opened, blocks |-> read.blocks, goesOn |-> FALSE]
         /\ read.goesOn /\ unit # <<>> =>
              NextDataItem(read, frame, missing) =
                [parser |-> opened, blocks |-> Append(read.blocks, DataBlock(frame, unit[1])), goesOn |-> TRUE]
  BY Zenon DEF NextDataItem

\* What is sent for the frames from start on, of which some were asked for.
IsAnswer(start, asked, blocks) ==
  /\ blocks \in Seq(Blocks) /\ Len(blocks) \in Number /\ Len(blocks) <= UnitsPerRequest
  /\ \A i \in DOMAIN blocks : BlockIsRight(blocks[i], start + i - 1)
  /\ Len(blocks) >= asked \/ \A u \in UnitsAt(start + Len(blocks)) : u.path \in Unreliable

\* After n frames: all of them have a block, or it ended at one before.
BlocksSoFar(start, n, blocks, goes) ==
  /\ blocks \in Seq(Blocks) /\ Len(blocks) <= n
  /\ \A i \in DOMAIN blocks : BlockIsRight(blocks[i], start + i - 1)
  /\ goes => Len(blocks) = n
  /\ ~goes => \A u \in UnitsAt(start + Len(blocks)) : u.path \in Unreliable

ReadSoFar(start, n, read) ==
  \E q, blocks : \E goes \in BOOLEAN :
    /\ read = [parser |-> q, blocks |-> blocks, goesOn |-> goes] /\ Kept(q)
    /\ Current(auxDataParser) => Current(q) /\ BlocksSoFar(start, n, blocks, goes)

LEMMA OneMoreRead ==
  ASSUME Timeline(show), Fits(show), NumbersFit, generation \in Nat, NEW start \in Nat, NEW n \in Nat,
         start + n \in Number, NEW missing \in SUBSET Unreliable, NEW read, ReadSoFar(start, n, read)
  PROVE  ReadSoFar(start, n + 1, NextDataItem(read, start + (n + 1) - 1, missing))
<1>1. PICK q, blocks : \E goes \in BOOLEAN :
        /\ read = [parser |-> q, blocks |-> blocks, goesOn |-> goes] /\ Kept(q)
        /\ Current(auxDataParser) => Current(q) /\ BlocksSoFar(start, n, blocks, goes)
  BY DEF ReadSoFar
<1>2. PICK goes \in BOOLEAN :
        /\ read = [parser |-> q, blocks |-> blocks, goesOn |-> goes] /\ Kept(q)
        /\ Current(auxDataParser) => Current(q) /\ BlocksSoFar(start, n, blocks, goes)
  BY <1>1
<1>3. PICK frame \in Nat : frame = start + n /\ frame = start + (n + 1) - 1 /\ frame \in Number
  OBVIOUS
<1>4. PICK opened : opened = IF q # Null /\ InRange(q, frame) THEN q ELSE OpenAuxDataParser(frame, missing)
  OBVIOUS
<1>5. PICK unit : unit = IF opened = Null THEN <<>> ELSE GetDataItem(opened, frame)
  OBVIOUS
<1>6. Kept(opened) /\ (Current(q) => Current(opened) /\ ItemIsRight(unit, frame))
  <2>1. Kept(q)
    BY <1>2
  <2>2. QED
    BY ONLY <1>4, <1>5, <2>1, ItemIs, Timeline(show), Fits(show), NumbersFit, generation \in Nat,
       frame \in Nat, missing \in SUBSET Unreliable
<1>7. /\ ~read.goesOn => NextDataItem(read, frame, missing) = read
      /\ read.goesOn /\ unit = <<>> =>
           NextDataItem(read, frame, missing) = [parser |-> opened, blocks |-> read.blocks, goesOn |-> FALSE]
      /\ read.goesOn /\ unit # <<>> =>
           NextDataItem(read, frame, missing) =
             [parser |-> opened, blocks |-> Append(read.blocks, DataBlock(frame, unit[1])), goesOn |-> TRUE]
  <2>1. read.parser = q
    BY ONLY <1>2
  <2>2. QED
    BY ONLY <1>4, <1>5, <2>1, NextDataItemIs
<1>12. read.blocks = blocks /\ (read.goesOn <=> goes)
  BY ONLY <1>2, goes \in BOOLEAN
<1>8. CASE ~goes
  <2>1. NextDataItem(read, frame, missing) = [parser |-> q, blocks |-> blocks, goesOn |-> goes]
    <3>1. NextDataItem(read, frame, missing) = read
      BY ONLY <1>7, <1>8, <1>12, Zenon
    <3>2. QED
      BY ONLY <1>2, <3>1, Zenon
  <2>2. BlocksSoFar(start, n, blocks, goes) => BlocksSoFar(start, n + 1, blocks, goes)
    <3>1. \A s \in Seq(Blocks) : Len(s) <= n => Len(s) <= n + 1
      OBVIOUS
    <3>2. QED
      BY <1>8, <3>1 DEF BlocksSoFar
  <2>3. QED
    BY <1>2, <1>3, <2>1, <2>2 DEF ReadSoFar
<1>9. CASE goes /\ unit = <<>>
  <2>1. NextDataItem(read, frame, missing) = [parser |-> opened, blocks |-> blocks, goesOn |-> FALSE]
    BY ONLY <1>7, <1>9, <1>12, Zenon
  <2>2. Current(q) /\ BlocksSoFar(start, n, blocks, goes) => BlocksSoFar(start, n + 1, blocks, FALSE)
    <3>1. \A s \in Seq(Blocks) : Len(s) <= n => Len(s) <= n + 1
      OBVIOUS
    <3>2. BlocksSoFar(start, n, blocks, goes) => start + Len(blocks) = frame
      BY <1>3, <1>9 DEF BlocksSoFar
    <3>3. QED
      BY <1>6, <1>9, <3>1, <3>2 DEF BlocksSoFar, ItemIsRight
  <2>3. QED
    BY <1>2, <1>3, <1>6, <2>1, <2>2 DEF ReadSoFar
<1>10. CASE goes /\ unit # <<>>
  <2> DEFINE longer == Append(blocks, DataBlock(frame, unit[1]))
  <2>1. NextDataItem(read, frame, missing) = [parser |-> opened, blocks |-> longer, goesOn |-> TRUE]
    BY ONLY <1>7, <1>10, <1>12, Zenon
  <2>2. ASSUME Current(q), BlocksSoFar(start, n, blocks, goes)
        PROVE  BlocksSoFar(start, n + 1, longer, TRUE)
    <3>1. PICK p \in PlacesAt(show, frame, "AuxData") :
            unit[1] \in Data /\ \E u \in UnitsAt(frame) : unit[1] = u.dataItem
      BY <1>6, <1>10, <2>2 DEF ItemIsRight
    <3>2. PICK block \in Blocks : block = DataBlock(frame, unit[1]) /\ BlockIsRight(block, frame)
      BY <1>3, <3>1, BlockOfData
    <3>3. blocks \in Seq(Blocks) /\ Len(blocks) = n
      BY <1>10, <2>2 DEF BlocksSoFar
    <3>4. /\ longer \in Seq(Blocks) /\ Len(longer) = n + 1 /\ longer[n + 1] = block
          /\ \A i \in DOMAIN longer : i = n + 1 \/ (i \in DOMAIN blocks /\ longer[i] = blocks[i])
      BY <3>2, <3>3
    <3> HIDE DEF longer
    <3>5. \A i \in DOMAIN longer : BlockIsRight(longer[i], start + i - 1)
      <4>1. TAKE i \in DOMAIN longer
      <4>2. CASE i = n + 1
        BY <1>3, <3>2, <3>4, <4>2
      <4>3. CASE i \in DOMAIN blocks /\ longer[i] = blocks[i]
        BY <2>2, <4>3 DEF BlocksSoFar
      <4>4. QED
        BY <3>4, <4>2, <4>3
    <3>6. QED
      BY <1>10, <3>4, <3>5 DEF BlocksSoFar
  <2> HIDE DEF longer
  <2>3. QED
    BY <1>2, <1>3, <1>6, <2>1, <2>2 DEF ReadSoFar
<1>11. QED
  BY <1>8, <1>9, <1>10

LEMMA GetDataItemsIs ==
  ASSUME Timeline(show), Fits(show), NumbersFit, generation \in Nat, Kept(auxDataParser),
         NEW start \in Nat, start + UnitsPerRequest < Byte * Byte * Byte * Byte,
         NEW count \in Int, count <= UnitsPerRequest, NEW missing \in SUBSET Unreliable
  PROVE  /\ Kept(GetDataItems(start, count, missing).parser)
         /\ Current(auxDataParser) => IsAnswer(start, count, GetDataItems(start, count, missing).blocks)
<1>1. PICK asked \in Nat : asked = (IF count < 0 THEN 0 ELSE count) /\ count <= asked /\ asked <= UnitsPerRequest
  BY SSServerAssumption
<1>2. \A k \in Nat : k <= asked => start + k \in Number /\ k \in Number
  <2>1. PICK most : most = Byte * Byte * Byte * Byte
    OBVIOUS
  <2>2. most \in Int /\ UnitsPerRequest \in Nat
    BY <2>1, ByteAssumption, SSServerAssumption
  <2>3. \A k \in Nat : k <= asked => start + k \in 0 .. most - 1 /\ k \in 0 .. most - 1
    BY <1>1, <2>1, <2>2
  <2>4. QED
    BY <2>1, <2>3 DEF Number
<1>13. PICK first : first = [parser |-> auxDataParser, blocks |-> <<>>, goesOn |-> TRUE]
  OBVIOUS
<1>14. PICK g : g = CHOOSE f : ReadsTo(f, first, start, missing, asked)
  OBVIOUS
<1>3. ReadsTo(g, first, start, missing, asked)
  BY <1>14, ReadsExists
<1>4. GetDataItems(start, count, missing) = g[asked]
  BY <1>1, <1>13, <1>14 DEF GetDataItems, ReadsTo
<1>5. /\ g[0] = first
      /\ \A k \in Nat : k < asked => g[k + 1] = NextDataItem(g[k], start + (k + 1) - 1, missing)
  <2>1. g[0] = first
    BY ONLY <1>3, ReadsSteps, start \in Nat, asked \in Nat
  <2>2. \A k \in Nat : k < asked => g[k + 1] = NextDataItem(g[k], start + (k + 1) - 1, missing)
    BY ONLY <1>3, ReadsSteps, start \in Nat, asked \in Nat
  <2>3. QED
    BY <2>1, <2>2
<1> DEFINE Holds == {k \in Nat : ReadSoFar(start, k, g[k])}
<1>6. 0 \in Holds
  <2>1. BlocksSoFar(start, 0, <<>>, TRUE)
    BY DEF BlocksSoFar
  <2>2. QED
    BY <1>5, <1>13, <2>1 DEF ReadSoFar
<1>7. ASSUME NEW k \in Nat, k < asked, k \in Holds
      PROVE  k + 1 \in Holds
  <2>1. start + k \in Number
    BY <1>2, <1>7
  <2>2. ReadSoFar(start, k, g[k])
    BY <1>7
  <2>3. ReadSoFar(start, k + 1, NextDataItem(g[k], start + (k + 1) - 1, missing))
    BY <2>1, <2>2, OneMoreRead
  <2>4. QED
    BY <1>5, <1>7, <2>3
<1>8. asked \in Holds
  <2>1. Holds \in SUBSET Nat
    OBVIOUS
  <2> HIDE DEF Holds
  <2>2. 0 .. asked \subseteq Holds
    BY <1>6, <1>7, <2>1, FromZero
  <2>3. QED
    BY <2>2
<1>9. PICK q, blocks : \E goes \in BOOLEAN :
        /\ g[asked] = [parser |-> q, blocks |-> blocks, goesOn |-> goes] /\ Kept(q)
        /\ Current(auxDataParser) => Current(q) /\ BlocksSoFar(start, asked, blocks, goes)
  BY <1>8 DEF ReadSoFar
<1>10. PICK goes \in BOOLEAN :
        /\ g[asked] = [parser |-> q, blocks |-> blocks, goesOn |-> goes] /\ Kept(q)
        /\ Current(auxDataParser) => Current(q) /\ BlocksSoFar(start, asked, blocks, goes)
  BY <1>9
<1>11. ASSUME BlocksSoFar(start, asked, blocks, goes)
       PROVE  IsAnswer(start, count, blocks)
  <2>1. blocks \in Seq(Blocks) /\ Len(blocks) \in Nat /\ Len(blocks) <= asked
    BY <1>11 DEF BlocksSoFar
  <2>2. Len(blocks) \in Number /\ Len(blocks) <= UnitsPerRequest
    <3>1. Len(blocks) \in Number
      BY <1>2, <2>1
    <3>2. Len(blocks) <= UnitsPerRequest
      BY ONLY <1>1, <2>1, SSServerAssumption
    <3>3. QED
      BY <3>1, <3>2
  <2>3. goes => Len(blocks) >= count
    BY <1>1, <1>11 DEF BlocksSoFar
  <2>4. QED
    BY <1>11, <2>1, <2>2, <2>3 DEF BlocksSoFar, IsAnswer
<1>12. QED
  BY <1>4, <1>10, <1>11

-----------------------------------------------------------------------------
(* The replies.                                                            *)

Capped(n) == IF n > UnitsPerRequest THEN UnitsPerRequest ELSE n

AnswerIs(request, content) ==
  /\ request \in Requests /\ request.form = "wellFormed" /\ request.start \in Number
  /\ \E blocks \in Seq(Blocks) :
       /\ content = Sent(request.start, Len(blocks), blocks)
       /\ IsAnswer(request.start, Capped(request.count), blocks)

\* The manager's parser is that of some data of the show, or of one before a reset; a
\* server runs on a loaded show; what is replied is what the show has.
ManagerInv ==
  /\ generation \in Nat /\ (show # Null => Fits(show))
  /\ Kept(auxDataParser)

RunsLoaded ==
  /\ phase # "absent" => showLoaded
  /\ phase = "absent" => Idle

ReplyTypes ==
  /\ reply = [c \in Conns |-> reply[c]] /\ operation = [c \in Conns |-> operation[c]]
  /\ \A c \in Conns : operation[c] = "none" => reply[c] = Null

RepliesAreRight ==
  \A c \in Conns : Ok(c) /\ reply[c].fresh => AnswerIs(reply[c].request, reply[c].content)

LEMMA InitAnswers == Init => ManagerInv /\ RunsLoaded /\ ReplyTypes /\ RepliesAreRight
<1> SUFFICES ASSUME Init PROVE ManagerInv /\ RunsLoaded /\ ReplyTypes /\ RepliesAreRight
  OBVIOUS
<1>1. /\ generation = 0 /\ show = Null /\ auxDataParser = Null /\ phase = "absent" /\ accepting = "none"
      /\ operation = [c \in Conns |-> "none"] /\ reply = [c \in Conns |-> Null]
  BY DEF Init, InitManager, InitConns
<1>2. QED
  BY <1>1 DEF ManagerInv, RunsLoaded, Idle, ReplyTypes, RepliesAreRight, Kept, Ok

\* The show, and what a reply says of it, does not change under a running server.
LEMMA AnswerStays ==
  ASSUME show' = show, NEW request, NEW content, AnswerIs(request, content)
  PROVE  AnswerIs(request, content)'
<1>1. \A f : UnitsAt(f)' = UnitsAt(f)
  BY DEF UnitsAt
<1>2. \A block, f : BlockIsRight(block, f)' <=> BlockIsRight(block, f)
  BY <1>1 DEF BlockIsRight
<1>3. \A start, asked, blocks : IsAnswer(start, asked, blocks)' <=> IsAnswer(start, asked, blocks)
  BY <1>1, <1>2 DEF IsAnswer
<1>4. QED
  BY <1>3 DEF AnswerIs

LEMMA KeptStays ==
  ASSUME UNCHANGED <<show, generation>>, NEW q, Kept(q)
  PROVE  Kept(q)'
BY DEF Kept, ParserIsRight

\* What a request of the show is answered.
LEMMA RequestAnswered ==
  ASSUME ShowInv, showLoaded, ManagerInv, NumbersFit, NEW request \in Requests,
         request.form = "wellFormed", NEW missing \in SUBSET Unreliable,
         NEW read, read = GetDataItems(request.start, Capped(request.count), missing)
  PROVE  /\ Kept(read.parser)
         /\ FreshParser => AnswerIs(request, Content(request.start, read))
<1>1. Timeline(show) /\ Fits(show) /\ generation \in Nat /\ Kept(auxDataParser)
  <2>1. Timeline(show)
    BY DEF ShowInv
  <2>2. show # Null
    BY <2>1, ShowAssumption DEF Timeline
  <2>3. QED
    BY <2>1, <2>2 DEF ManagerInv
<1>2. PICK start \in Nat : start = request.start /\ start + UnitsPerRequest < Byte * Byte * Byte * Byte
  BY DEF NumbersFit
<1>3. PICK count \in Int : count = Capped(request.count) /\ count <= UnitsPerRequest
  BY SSServerAssumption DEF Capped
<1>4. start \in Number
  <2>1. PICK most : most = Byte * Byte * Byte * Byte
    OBVIOUS
  <2>2. most \in Int /\ UnitsPerRequest \in Nat
    BY <2>1, ByteAssumption, SSServerAssumption
  <2>3. start \in 0 .. most - 1
    BY ONLY <1>2, <2>1, <2>2, start \in Nat
  <2>4. QED
    BY <2>1, <2>3 DEF Number
<1>5. /\ Kept(read.parser)
      /\ Current(auxDataParser) => IsAnswer(start, count, read.blocks)
  <2>1. read = GetDataItems(start, count, missing)
    BY <1>2, <1>3
  <2>2. /\ Kept(GetDataItems(start, count, missing).parser)
        /\ Current(auxDataParser) => IsAnswer(start, count, GetDataItems(start, count, missing).blocks)
    BY ONLY <1>1, <1>2, <1>3, GetDataItemsIs, NumbersFit, start \in Nat, count \in Int,
       missing \in SUBSET Unreliable
  <2>3. QED
    BY <2>1, <2>2
<1>6. Content(start, read) = Sent(start, Len(read.blocks), read.blocks)
  BY DEF Content, Sent
<1>7. FreshParser => Current(auxDataParser)
  BY DEF FreshParser, Current
<1>8. IsAnswer(start, count, read.blocks) => AnswerIs(request, Content(request.start, read))
  BY <1>2, <1>3, <1>4, <1>6 DEF AnswerIs, IsAnswer
<1>9. QED
  BY <1>5, <1>7, <1>8

LEMMA RequestHandled ==
  ASSUME ShowInv, showLoaded, ManagerInv, ReplyTypes, RepliesAreRight, NumbersFit,
         NEW c \in Conns, NEW request \in Requests, HandleRequest(c, request)
  PROVE  /\ ManagerInv' /\ UNCHANGED <<CPLList, show, showLoaded, generation>>
         /\ reply' = [d \in Conns |-> reply'[d]] /\ \A d \in Conns \ {c} : reply'[d] = reply[d]
         /\ Ok(c)' /\ reply'[c].fresh => AnswerIs(reply'[c].request, reply'[c].content)
<1>1. CASE request.form # "wellFormed"
  <2>1. PICK status : status # "ok" /\ UNCHANGED managerVars
          /\ reply' = [reply EXCEPT ![c] = [status |-> status, request |-> request, content |-> NoContent,
                                            fresh |-> FreshParser]]
    <3>1. PICK status : status # "ok" /\ status = IF request.form = "malformed" THEN "bad_request" ELSE "not_found"
      OBVIOUS
    <3>2. QED
      BY <1>1, <3>1, Zenon DEF HandleRequest
  <2>2. reply' = [d \in Conns |-> reply'[d]] /\ \A d \in Conns \ {c} : reply'[d] = reply[d]
    BY <2>1 DEF ReplyTypes
  <2>3. reply'[c].status = status
    BY <2>1 DEF ReplyTypes
  <2>4. ManagerInv' /\ UNCHANGED <<CPLList, show, showLoaded, generation>>
    BY <2>1, KeptStays DEF ManagerInv, managerVars
  <2>5. QED
    BY <2>1, <2>2, <2>3, <2>4 DEF Ok
<1>2. CASE request.form = "wellFormed"
  <2>1. PICK missing \in SUBSET Unreliable :
          /\ reply' = [reply EXCEPT ![c] =
               [status |-> "ok", request |-> request, fresh |-> FreshParser,
                content |-> Content(request.start,
                                    GetDataItems(request.start, Capped(request.count), missing))]]
          /\ auxDataParser' = GetDataItems(request.start, Capped(request.count), missing).parser
          /\ UNCHANGED <<CPLList, show, showLoaded, generation>>
    BY <1>2, Zenon DEF HandleRequest, Capped
  <2>2. PICK read : read = GetDataItems(request.start, Capped(request.count), missing)
    OBVIOUS
  <2>3. PICK content : content = Content(request.start, read)
    OBVIOUS
  <2>4. reply' = [reply EXCEPT ![c] =
                    [status |-> "ok", request |-> request, fresh |-> FreshParser, content |-> content]]
    BY ONLY <2>1, <2>2, <2>3, Zenon
  <2>5. Kept(read.parser) /\ (FreshParser => AnswerIs(request, content))
    BY <1>2, <2>2, <2>3, RequestAnswered
  <2>6. reply' = [d \in Conns |-> reply'[d]] /\ \A d \in Conns \ {c} : reply'[d] = reply[d]
    BY <2>4, Zenon DEF ReplyTypes
  <2>7. /\ reply'[c].fresh => FreshParser
        /\ reply'[c].request = request /\ reply'[c].content = content
    BY <2>4, Zenon DEF ReplyTypes
  <2>8. ManagerInv'
    <3>1. auxDataParser' = read.parser
      BY ONLY <2>1, <2>2
    <3>2. Kept(auxDataParser)'
      BY <2>1, <2>5, <3>1 DEF Kept, ParserIsRight
    <3>3. QED
      BY <2>1, <3>2 DEF ManagerInv
  <2>9. QED
    BY <2>1, <2>5, <2>6, <2>7, <2>8
<1>3. QED
  BY <1>1, <1>2

-----------------------------------------------------------------------------
(* The server that answers from the show.                                  *)

\* What a reply says stays true while a server runs.
AnswerInv == ShowInv /\ ManagerInv /\ RunsLoaded /\ ReplyTypes /\ RepliesAreRight

LEMMA PrepareKeeps ==
  ASSUME AnswerInv, PrepareShow, PicturesAreRegular, DataAreRegular
  PROVE  ManagerInv' /\ RunsLoaded' /\ ReplyTypes' /\ RepliesAreRight'
<1>1. phase = "absent" /\ UNCHANGED <<phase, accepting, operation, reply>>
  BY DEF PrepareShow, serverVars, connVars
<1>2. \A c \in Conns : reply[c] = Null
  BY <1>1 DEF AnswerInv, RunsLoaded, Idle, ReplyTypes
<1>3. RunsLoaded' /\ ReplyTypes' /\ RepliesAreRight'
  BY <1>1, <1>2 DEF AnswerInv, RunsLoaded, Idle, ReplyTypes, RepliesAreRight, Ok
<1>4. ManagerInv'
  <2>1. ASSUME UNCHANGED <<show, generation, auxDataParser>>
        PROVE  ManagerInv'
    BY <2>1, KeptStays DEF AnswerInv, ManagerInv
  <2>2. CASE Load
    <3>1. Len(CPLList) \in Nat /\ CPLList \in Seq(Files) /\ show = Null
      BY <2>2 DEF Load, AnswerInv, ShowInv
    <3>2. Fits(ShowOf(CPLList))
      BY <3>1, ShowOfFits
    <3>3. show' = ShowOf(CPLList) /\ UNCHANGED <<generation, auxDataParser>>
      BY <2>2 DEF Load
    <3>4. Kept(auxDataParser)'
      BY <3>1, <3>3 DEF AnswerInv, ManagerInv, Kept
    <3>5. QED
      BY <3>2, <3>3, <3>4 DEF AnswerInv, ManagerInv
  <2>3. CASE Reset
    <3>1. show' = Null /\ generation' = generation + 1 /\ UNCHANGED auxDataParser
      BY <2>3 DEF Reset
    <3>2. QED
      BY <3>1 DEF AnswerInv, ManagerInv, Kept
  <2>4. QED
    BY <2>1, <2>2, <2>3 DEF PrepareShow, AddCPL, AddCPLList
<1>5. QED
  BY <1>3, <1>4

\* The manager and the replies are left alone.
LEMMA AnswersLeftAlone ==
  ASSUME AnswerInv, UNCHANGED managerVars
  PROVE  /\ ManagerInv'
         /\ \A c \in Conns : reply'[c] = reply[c] /\ Ok(c)' /\ reply'[c].fresh
              => AnswerIs(reply[c].request, reply[c].content)'
<1>1. ManagerInv'
  BY KeptStays DEF AnswerInv, ManagerInv, managerVars
<1>2. \A request, content : AnswerIs(request, content) => AnswerIs(request, content)'
  BY AnswerStays DEF managerVars
<1>3. ASSUME NEW c \in Conns, reply'[c] = reply[c], Ok(c)', reply'[c].fresh
      PROVE  AnswerIs(reply[c].request, reply[c].content)'
  <2>1. PICK r : r = reply[c] /\ r = reply'[c]
    BY <1>3
  <2>2. r # Null /\ r.status = "ok" /\ r.fresh
    BY <1>3, <2>1, Zenon DEF Ok
  <2>3. AnswerIs(r.request, r.content)
    <3>1. Ok(c) /\ reply[c].fresh => AnswerIs(reply[c].request, reply[c].content)
      BY DEF AnswerInv, RepliesAreRight
    <3>2. QED
      BY <2>1, <2>2, <3>1, Zenon DEF Ok
  <2>4. QED
    BY <1>2, <2>1, <2>3
<1>4. QED
  BY <1>1, <1>3

LEMMA DestroyAnswers ==
  ASSUME AnswerInv, NEW c \in Conns, Destroy(c), UNCHANGED <<managerVars, phase, accepting>>
  PROVE  ManagerInv' /\ RunsLoaded' /\ ReplyTypes' /\ RepliesAreRight'
<1>1. /\ operation' = [d \in Conns |-> operation'[d]] /\ reply' = [d \in Conns |-> reply'[d]]
      /\ operation'[c] = "none" /\ reply'[c] = Null
      /\ \A d \in Conns \ {c} : operation'[d] = operation[d] /\ reply'[d] = reply[d]
  BY DEF Destroy, AnswerInv, ReplyTypes
<1>2. RunsLoaded' /\ ReplyTypes'
  BY <1>1 DEF AnswerInv, RunsLoaded, Idle, ReplyTypes, managerVars
<1>3. ManagerInv'
  BY AnswersLeftAlone
<1>5. RepliesAreRight'
  <2>1. \A d \in Conns \ {c} : reply'[d] = reply[d] /\ Ok(d)' /\ reply'[d].fresh
                                => AnswerIs(reply[d].request, reply[d].content)'
    BY AnswersLeftAlone
  <2>2. ~Ok(c)'
    BY <1>1 DEF Ok
  <2>3. QED
    BY <1>1, <2>1, <2>2, Zenon DEF RepliesAreRight
<1>4. QED
  BY <1>2, <1>3, <1>5

LEMMA PieceAnswers ==
  ASSUME AnswerInv, NumbersFit, NEW c \in Conns, operation[c] = "read", NEW n, HandlePiece(c, n),
         UNCHANGED <<phase, accepting>>
  PROVE  ManagerInv' /\ RunsLoaded' /\ ReplyTypes' /\ RepliesAreRight'
<1>1. phase # "absent" /\ showLoaded
  BY DEF AnswerInv, RunsLoaded, Idle
<1>2. /\ operation' = [d \in Conns |-> operation'[d]] /\ operation'[c] # "none"
      /\ \A d \in Conns \ {c} : operation'[d] = operation[d]
  BY DEF HandlePiece, Begin, AnswerInv, ReplyTypes
<1>3. /\ ManagerInv' /\ UNCHANGED <<show, showLoaded>>
      /\ reply' = [d \in Conns |-> reply'[d]] /\ \A d \in Conns \ {c} : reply'[d] = reply[d]
      /\ Ok(c)' /\ reply'[c].fresh => AnswerIs(reply'[c].request, reply'[c].content)
  <2>1. CASE \E request \in Requests : HandleRequest(c, request)
    BY <1>1, <2>1, RequestHandled DEF AnswerInv
  <2>2. CASE StockReply(c)
    <3>1. PICK content, fresh :
            /\ UNCHANGED managerVars
            /\ reply' = [reply EXCEPT ![c] = [status |-> "bad_request", request |-> Null,
                                              content |-> content, fresh |-> fresh]]
      BY <2>2, Zenon DEF StockReply
    <3>2. /\ reply' = [d \in Conns |-> reply'[d]] /\ \A d \in Conns \ {c} : reply'[d] = reply[d]
          /\ reply'[c].status = "bad_request"
      BY <3>1 DEF AnswerInv, ReplyTypes
    <3>3. QED
      BY <3>1, <3>2, AnswersLeftAlone DEF Ok, managerVars
  <2>3. CASE UNCHANGED <<managerVars, reply>>
    <3>1. UNCHANGED <<show, showLoaded, reply>>
      BY <2>3 DEF managerVars
    <3>2. Ok(c)' /\ reply'[c].fresh => AnswerIs(reply'[c].request, reply'[c].content)
      BY <3>1 DEF AnswerInv, RepliesAreRight, Ok
    <3>3. QED
      BY <2>3, <3>1, <3>2, AnswersLeftAlone DEF AnswerInv, ReplyTypes
  <2>4. QED
    BY <2>1, <2>2, <2>3 DEF HandlePiece
<1>4. \A request, content : AnswerIs(request, content) => AnswerIs(request, content)'
  BY <1>3, AnswerStays
<1>5. RepliesAreRight'
  BY <1>3, <1>4 DEF AnswerInv, RepliesAreRight, Ok
<1>6. QED
  BY <1>1, <1>2, <1>3, <1>5 DEF AnswerInv, RunsLoaded, ReplyTypes

LEMMA StepAnswers ==
  ASSUME AnswerInv, [Next]_vars, PicturesAreRegular, DataAreRegular, NumbersFit
  PROVE  AnswerInv'
<1>1. ShowInv'
  BY StepShows DEF AnswerInv
<1>2. ASSUME UNCHANGED <<managerVars, reply>>, RunsLoaded',
             operation' = [c \in Conns |-> operation'[c]],
             \A c \in Conns : operation'[c] = "none" => operation[c] = "none"
      PROVE  AnswerInv'
  <2>1. ManagerInv' /\ RepliesAreRight'
    <3>1. ManagerInv' /\ \A c \in Conns : reply'[c] = reply[c] /\ Ok(c)' /\ reply'[c].fresh
                             => AnswerIs(reply[c].request, reply[c].content)'
      BY <1>2, AnswersLeftAlone
    <3>2. \A c \in Conns : reply'[c] = reply[c]
      BY <1>2
    <3>3. QED
      BY <3>1, <3>2, Zenon DEF RepliesAreRight
  <2>2. ReplyTypes'
    BY <1>2 DEF AnswerInv, ReplyTypes
  <2>3. QED
    BY <1>1, <1>2, <2>1, <2>2 DEF AnswerInv
<1>3. CASE PrepareShow
  BY <1>1, <1>3, PrepareKeeps DEF AnswerInv
<1>4. CASE Start \/ End \/ AcceptCompletes \/ HandleSignal \/ UNCHANGED vars
  <2>1. UNCHANGED <<managerVars, reply, operation>>
    BY <1>4 DEF Start, End, AcceptCompletes, HandleSignal, connVars, vars
  <2>2. RunsLoaded'
    BY <1>4, <2>1 DEF Start, End, AcceptCompletes, HandleSignal, vars, serverVars, connVars,
                      managerVars, AnswerInv, RunsLoaded, Idle
  <2>3. QED
    BY <1>2, <2>1, <2>2 DEF AnswerInv, ReplyTypes
<1>5. CASE HandleAccept
  <2>1. /\ UNCHANGED <<managerVars, reply, phase>> /\ phase # "absent"
        /\ operation' = operation \/ operation' = [operation EXCEPT ![acceptedSocket] = "read"]
    BY <1>5 DEF HandleAccept, connVars, AnswerInv, RunsLoaded, Idle
  <2>2. RunsLoaded'
    BY <2>1 DEF AnswerInv, RunsLoaded, managerVars
  <2>3. /\ operation' = [c \in Conns |-> operation'[c]]
        /\ \A c \in Conns : operation'[c] = "none" => operation[c] = "none"
    BY <2>1 DEF AnswerInv, ReplyTypes
  <2>4. QED
    BY <1>2, <2>1, <2>2, <2>3
<1>6. ASSUME NEW c \in Conns, Connect(c) \/ OperationCompletes(c)
      PROVE  AnswerInv'
  <2>1. UNCHANGED <<managerVars, reply, operation, phase, accepting>>
    BY <1>6 DEF Connect, OperationCompletes, serverVars
  <2>2. RunsLoaded'
    BY <2>1 DEF AnswerInv, RunsLoaded, Idle, managerVars
  <2>3. QED
    BY <1>2, <2>1, <2>2 DEF AnswerInv, ReplyTypes
<1>7. ASSUME NEW c \in Conns, HandleRead(c)
      PROVE  AnswerInv'
  <2>1. UNCHANGED <<phase, accepting>> /\ operation[c] = "read"
    BY <1>7 DEF HandleRead
  <2>2. CASE \E n : HandlePiece(c, n)
    BY <1>1, <2>1, <2>2, PieceAnswers DEF AnswerInv
  <2>3. CASE Destroy(c) /\ UNCHANGED managerVars
    BY <1>1, <2>1, <2>3, DestroyAnswers DEF AnswerInv
  <2>4. QED
    BY <1>7, <2>2, <2>3 DEF HandleRead, StopConnection
<1>8. ASSUME NEW c \in Conns, HandleWrite(c)
      PROVE  AnswerInv'
  <2>1. UNCHANGED <<managerVars, phase, accepting>> /\ Destroy(c)
    BY <1>8 DEF HandleWrite, StopConnection
  <2>2. QED
    BY <1>1, <2>1, DestroyAnswers DEF AnswerInv
<1>9. QED
  BY <1>3, <1>4, <1>5, <1>6, <1>7, <1>8 DEF Next

LEMMA AnswerIsRead ==
  ASSUME NEW request, NEW content, AnswerIs(request, content)
  PROVE  \E blocks \in Seq(Blocks) :
           /\ IsAnswer(request.start, Capped(request.count), blocks)
           /\ ReadContent(content) = [start |-> request.start, count |-> Len(blocks), blocks |-> blocks]
           /\ ReadTransferHeader(content).value.count = Len(blocks)
<1>1. PICK blocks \in Seq(Blocks) :
        /\ content = Sent(request.start, Len(blocks), blocks)
        /\ IsAnswer(request.start, Capped(request.count), blocks)
  BY DEF AnswerIs
<1>2. PICK start \in Number : start = request.start
  BY DEF AnswerIs
<1>3. Len(blocks) \in Number
  BY <1>1 DEF IsAnswer
<1>4. ReadContent(content) = [start |-> start, count |-> Len(blocks), blocks |-> blocks]
  BY <1>1, <1>2, <1>3, SentIsRead
<1>5. ReadContent(content).count = ReadTransferHeader(content).value.count
  BY Zenon DEF ReadContent
<1>6. ReadTransferHeader(content).value.count = Len(blocks)
  BY <1>4, <1>5
<1>7. QED
  BY <1>1, <1>2, <1>4, <1>6

\* If every reel has one picture and data that fit it, and the numbers have room, the client
\* reads in an answer of ShowManager::GetDataItems the items of consecutive frames of the
\* show, at their rate and in their coding, whatever was asked for and opened before.
THEOREM ShowIsAnswered ==
  Spec /\ PicturesAreRegular /\ DataAreRegular /\ NumbersFit => []AnswersWithTheShow
<1> SUFFICES ASSUME PicturesAreRegular, DataAreRegular, NumbersFit PROVE Spec => []AnswersWithTheShow
  OBVIOUS
<1>1. AnswerInv => AnswersWithTheShow
  <2> SUFFICES ASSUME AnswerInv, NEW c \in Conns, Ok(c), reply[c].fresh PROVE UnitsAreRight(reply[c])
    BY DEF AnswersWithTheShow
  <2>1. PICK r : r = reply[c]
    OBVIOUS
  <2>2. AnswerIs(r.request, r.content)
    BY <2>1 DEF AnswerInv, RepliesAreRight
  <2>3. PICK blocks \in Seq(Blocks) :
          /\ IsAnswer(r.request.start, Capped(r.request.count), blocks)
          /\ ReadContent(r.content) = [start |-> r.request.start, count |-> Len(blocks), blocks |-> blocks]
    BY <2>2, AnswerIsRead
  <2>4. \A i \in DOMAIN blocks : BlockIsRight(blocks[i], r.request.start + i - 1)
    BY <2>3 DEF IsAnswer
  <2>5. PICK got : got = ReadContent(r.content) /\ got.start = r.request.start
                   /\ got.count = Len(got.blocks) /\ got.blocks = blocks
    BY <2>3
  <2>6. QED
    BY <2>1, <2>4, <2>5 DEF UnitsAreRight, BlockIsRight
<1>2. QED
  <2>1. Init => AnswerInv
    BY InitAnswers, InitShows DEF AnswerInv
  <2>2. AnswerInv /\ [Next]_vars => AnswerInv'
    BY StepAnswers
  <2>3. QED
    BY <1>1, <2>1, <2>2, PTL DEF Spec

\* Under the same conditions an answer has all the frames that were asked for, or the most one
\* has, or ends where the show has no item or its file cannot always be opened.
THEOREM AnswersAreFull ==
  Spec /\ PicturesAreRegular /\ DataAreRegular /\ NumbersFit => []AnswersInFull
<1> SUFFICES ASSUME PicturesAreRegular, DataAreRegular, NumbersFit PROVE Spec => []AnswersInFull
  OBVIOUS
<1>1. AnswerInv => AnswersInFull
  <2> SUFFICES ASSUME AnswerInv, NEW c \in Conns, Ok(c), reply[c].fresh
               PROVE  LET n == ReadTransferHeader(reply[c].content).value.count
                      IN  \/ n >= reply[c].request.count \/ n = UnitsPerRequest
                          \/ \A u \in UnitsAt(reply[c].request.start + n) : u.path \in Unreliable
    BY DEF AnswersInFull
  <2>1. PICK r : r = reply[c]
    OBVIOUS
  <2>2. AnswerIs(r.request, r.content)
    BY <2>1 DEF AnswerInv, RepliesAreRight
  <2>3. PICK blocks \in Seq(Blocks) :
          /\ IsAnswer(r.request.start, Capped(r.request.count), blocks)
          /\ ReadTransferHeader(r.content).value.count = Len(blocks)
    BY <2>2, AnswerIsRead
  <2>4. PICK n \in Nat : n = Len(blocks) /\ n <= UnitsPerRequest
    BY <2>3 DEF IsAnswer
  <2>5. n >= Capped(r.request.count) \/ \A u \in UnitsAt(r.request.start + n) : u.path \in Unreliable
    BY <2>3, <2>4 DEF IsAnswer
  <2>6. n >= Capped(r.request.count) => n >= r.request.count \/ n = UnitsPerRequest
    <3>1. r.request.count \in Int /\ UnitsPerRequest \in Nat
      BY <2>2, SSServerAssumption DEF AnswerIs
    <3>2. QED
      BY <2>4, <3>1 DEF Capped
  <2>7. QED
    BY <2>1, <2>3, <2>4, <2>5, <2>6
<1>2. QED
  <2>1. Init => AnswerInv
    BY InitAnswers, InitShows DEF AnswerInv
  <2>2. AnswerInv /\ [Next]_vars => AnswerInv'
    BY StepAnswers
  <2>3. QED
    BY <1>1, <2>1, <2>2, PTL DEF Spec
=============================================================================
