---------------------------- MODULE DCSMessage ----------------------------
(***************************************************************************)
(* The messages of the control channel as bytes: a header of 16 key bytes  *)
(* and a BER length, then the members of the message's class in the order  *)
(* its ReadPayload and WritePayload go through.  A class is the sequence   *)
(* of its members, each with the way it is written; a message is its kind  *)
(* and the values of its members.                                          *)
(***************************************************************************)
EXTENDS SerializationUtils

-----------------------------------------------------------------------------
(* KLV: a key, the length and the text.                                    *)

KLVWrite(klv) == <<klv.key>> \o WriteBER4(Len(klv.text)) \o klv.text

KLVSize(klv) == 5 + Len(klv.text)

KLVRead(buf, at) ==
  [value |-> [key |-> buf[at], text |-> ReadText(buf, at + 5, ReadBER4(buf, at + 1))],
   at    |-> at + 5 + ReadBER4(buf, at + 1)]

-----------------------------------------------------------------------------
(* The classes of messages.                                                *)

Member(type, name) == [type |-> type, name |-> name]

RequestID == Member("uint32", "requestID")
StatusResponse == Member("KLV", "statusResponse")

BasicResponse == <<RequestID, StatusResponse>>

AnnounceRequest ==
  <<RequestID, Member("int64", "currentTime"), Member("rest", "deviceDescription")>>

AnnounceResponse ==
  <<RequestID, Member("int64", "currentTime"), Member("counted", "deviceDescription"),
    StatusResponse>>

GetNewLeaseRequest == <<RequestID, Member("uint32", "leaseDuration")>>

GetStatusRequest == <<RequestID>>

SetRPLLocationRequest ==
  <<RequestID, Member("uint32", "playoutID"), Member("rest", "url")>>

UpdateTimelineRequest ==
  <<RequestID, Member("uint32", "playoutID"), Member("uint64", "timelinePosition"),
    Member("uint64", "editRateNumerator"), Member("uint64", "editRateDenominator"),
    Member("uint32", "timelineExtensionCount"), Member("extensions", "timelineExtensions")>>

SetOutputModeRequest == <<RequestID, Member("bool", "outputMode")>>

TerminateLeaseRequest == <<RequestID>>

GetLogEventListRequest ==
  <<RequestID, Member("int64", "timeStart"), Member("int64", "timeStop")>>

GetLogEventListResponse ==
  <<RequestID, Member("uint32", "numberOfItems"), Member("BER4", "itemLength"),
    Member("items", "eventIDs"), StatusResponse>>

GetLogEventRequest == <<RequestID, Member("uint32", "eventID")>>

GetLogEventResponse ==
  <<RequestID, Member("BER4", "logEventTextLength"), Member("text", "logEventText"),
    StatusResponse>>

\* The classes by their kinds.
Class ==
  [AnnounceRequest        |-> AnnounceRequest,        AnnounceResponse        |-> AnnounceResponse,
   GetNewLeaseRequest     |-> GetNewLeaseRequest,     GetNewLeaseResponse     |-> BasicResponse,
   GetStatusRequest       |-> GetStatusRequest,       GetStatusResponse       |-> BasicResponse,
   SetRPLLocationRequest  |-> SetRPLLocationRequest,  SetRPLLocationResponse  |-> BasicResponse,
   SetOutputModeRequest   |-> SetOutputModeRequest,   SetOutputModeResponse   |-> BasicResponse,
   UpdateTimelineRequest  |-> UpdateTimelineRequest,  UpdateTimelineResponse  |-> BasicResponse,
   TerminateLeaseRequest  |-> TerminateLeaseRequest,  TerminateLeaseResponse  |-> BasicResponse,
   GetLogEventListRequest |-> GetLogEventListRequest, GetLogEventListResponse |-> GetLogEventListResponse,
   GetLogEventRequest     |-> GetLogEventRequest,     GetLogEventResponse     |-> GetLogEventResponse]

\* kind2_ of each; kind1_ is 2.
Kind2 ==
  [AnnounceRequest        |-> 0,  AnnounceResponse        |-> 1,
   GetNewLeaseRequest     |-> 2,  GetNewLeaseResponse     |-> 3,
   GetStatusRequest       |-> 4,  GetStatusResponse       |-> 5,
   SetRPLLocationRequest  |-> 6,  SetRPLLocationResponse  |-> 7,
   SetOutputModeRequest   |-> 8,  SetOutputModeResponse   |-> 9,
   UpdateTimelineRequest  |-> 10, UpdateTimelineResponse  |-> 11,
   TerminateLeaseRequest  |-> 12, TerminateLeaseResponse  |-> 13,
   GetLogEventListRequest |-> 16, GetLogEventListResponse |-> 17,
   GetLogEventRequest     |-> 18, GetLogEventResponse     |-> 19]

-----------------------------------------------------------------------------
(* Writing.  itemLength_ is 4 and the extensions are counted, not measured. *)

MemberSize(type, v) ==
  CASE type \in {"uint32", "BER4"}  -> 4
    [] type \in {"int64", "uint64"} -> 8
    [] type = "bool"                -> 1
    [] type \in {"rest", "text"}    -> Len(v)
    [] type = "counted"             -> 4 + Len(v)
    [] type = "KLV"                 -> KLVSize(v)
    [] type = "items"               -> 4 * Len(v)
    [] type = "extensions"          -> Len(v)

GetPayloadSize(msg) ==
  LET members == Class[msg.kind]
      size[i \in 0 .. Len(members)] ==
        IF i = 0 THEN 0
        ELSE size[i - 1] + MemberSize(members[i].type, msg.body[members[i].name])
  IN  size[Len(members)]

headerSize == 20
GetMessageSize(msg) == headerSize + GetPayloadSize(msg)

\* The loops over items and extensions go by the count that is a member, too.
WriteMember(type, v, body) ==
  CASE type = "uint32"              -> Write32(v)
    [] type = "BER4"                -> WriteBER4(v)
    [] type \in {"int64", "uint64"} -> Write64(v)
    [] type = "bool"                -> WriteBool(v)
    [] type \in {"rest", "text"}    -> v
    [] type = "counted"             -> WriteBER4(Len(v)) \o v
    [] type = "KLV"                 -> KLVWrite(v)
    [] type = "items"               ->
         FlattenSeq([i \in 1 .. body.numberOfItems |-> Write32(v[i])])
    [] type = "extensions"          ->
         FlattenSeq([i \in 1 .. body.timelineExtensionCount |-> KLVWrite(v[i])])

WritePayload(msg) ==
  FlattenSeq([i \in DOMAIN Class[msg.kind] |->
                LET m == Class[msg.kind][i]
                IN  WriteMember(m.type, msg.body[m.name], msg.body)])

WriteHeader(msg) ==
  <<6, 14, 43, 52, 2, 5, 1, 1, 2, 7, 2, 2, Kind2[msg.kind], 0, 0, 0>>
    \o WriteBER4(GetPayloadSize(msg))

-----------------------------------------------------------------------------
(* What can be sent.  Texts are C strings.  A message counts its items as   *)
(* they are added to it, and counts nothing else: the count of one without  *)
(* items, and the length of a text, are what its memory held when nobody    *)
(* set them (Execute of the client does not).  No timeline is sent with     *)
(* extensions: nothing adds any, and they would not be measured.            *)

Lengths == 0 .. Byte * Byte * Byte - 1
Texts == {t \in Seq(1 .. Byte - 1) : Len(t) \in Lengths}

Fits(type, v, body) ==
  /\ type \in {"uint32", "BER4"} => v \in Number
  /\ type \in {"int64", "uint64"} => v \in [hi : Number, lo : Number]
  /\ type = "bool" => v \in BOOLEAN
  /\ type \in {"rest", "counted", "text"} => v \in Texts
  /\ type = "KLV" => v \in [key : Bytes, text : Texts]
  /\ type = "items" => v \in Seq(Number) /\ (v = <<>> \/ Len(v) = body.numberOfItems)
  /\ type = "extensions" => v = <<>>

IsMessage(msg) ==
  /\ msg.kind \in DOMAIN Class
  /\ DOMAIN msg.body = {Class[msg.kind][i].name : i \in DOMAIN Class[msg.kind]}
  /\ \A i \in DOMAIN Class[msg.kind] :
       Fits(Class[msg.kind][i].type, msg.body[Class[msg.kind][i].name], msg.body)
  /\ GetPayloadSize(msg) \in Lengths

\* As many items and extensions as are counted; without, the loops that write them
\* read those of an empty vector.
IsCounted(type, v, body) ==
  /\ type = "items" => body.numberOfItems = Len(v)
  /\ type = "extensions" => body.timelineExtensionCount = Len(v)

ItemsAreCounted(msg) ==
  \A i \in DOMAIN Class[msg.kind] :
    IsCounted(Class[msg.kind][i].type, msg.body[Class[msg.kind][i].name], msg.body)

\* A length is the text's, and has three bytes.
IsMeasured(type, v, body) ==
  /\ type = "BER4" => v \in Lengths
  /\ type = "text" => body.logEventTextLength = Len(v)

CountsAreRight(msg) ==
  /\ ItemsAreCounted(msg)
  /\ \A i \in DOMAIN Class[msg.kind] :
       IsMeasured(Class[msg.kind][i].type, msg.body[Class[msg.kind][i].name], msg.body)

-----------------------------------------------------------------------------
(* Reading.                                                                *)

HeaderLength(header) == ReadBER4(header, 17)

\* MessageFactory knows no message that terminates a lease.
FactoryKinds == DOMAIN Kind2 \ {"TerminateLeaseRequest", "TerminateLeaseResponse"}

CreatedKinds(header) ==
  {k \in FactoryKinds : header[12] = 2 /\ header[13] = Kind2[k]}

\* n values of four bytes, and n KLVs.
ReadItems(buf, at, n) ==
  [value |-> [i \in 1 .. n |-> Read32(buf, at + 4 * (i - 1))], at |-> at + 4 * n]

ReadKLVs(buf, at, n) ==
  LET r[i \in 0 .. n] ==
        IF i = 0 THEN [value |-> <<>>, at |-> at]
        ELSE LET klv == KLVRead(buf, r[i - 1].at)
             IN  [value |-> Append(r[i - 1].value, klv.value), at |-> klv.at]
  IN  r[n]

\* A member of a type, read from `at` on in a payload of n bytes; `body` holds the
\* members read before, `held` what the new message's memory held.
ReadMember(type, buf, at, n, body, held) ==
  CASE type = "uint32"              -> Read(Read32(buf, at), at + 4)
    [] type = "BER4"                -> Read(ReadBER4(buf, at), at + 4)
    [] type \in {"int64", "uint64"} -> Read(Read64(buf, at), at + 8)
    [] type = "bool"                -> Read(ReadBool(buf, at, held), at + 1)
    [] type = "rest"                -> Read(ReadText(buf, at, n - (at - 1)), n + 1)
    [] type = "text"                ->
         Read(ReadText(buf, at, body.logEventTextLength), at + body.logEventTextLength)
    [] type = "counted"             ->
         Read(ReadText(buf, at + 4, ReadBER4(buf, at)), at + 4 + ReadBER4(buf, at))
    [] type = "KLV"                 -> KLVRead(buf, at)
    [] type = "items"               -> ReadItems(buf, at, body.numberOfItems)
    [] type = "extensions"          -> ReadKLVs(buf, at, body.timelineExtensionCount)

\* The next member is read behind those before.
NextMember(r, m, buf, held) ==
  LET field == ReadMember(m.type, buf, r.at, Len(buf), r.body, held)
  IN  [at |-> field.at, body |-> [x \in DOMAIN r.body \cup {m.name} |->
                                    IF x = m.name THEN field.value ELSE r.body[x]]]

\* The message of a kind in a payload, and where the reading ended.
ReadPayload(kind, buf, held) ==
  LET members == Class[kind]
      read[i \in 0 .. Len(members)] ==
        IF i = 0 THEN [at |-> 1, body |-> <<>>]
        ELSE NextMember(read[i - 1], members[i], buf, held)
      all == read[Len(members)]
  IN  [msg |-> [kind |-> kind, body |-> all.body], at |-> all.at]

\* The text of a log event, or the status behind it, does not end in the payload.
ReadsBeyond(kind, payload) ==
  LET textEnd == 8 + ReadBER4(payload, 5)
      statusEnd == IF textEnd + 5 > Len(payload) THEN textEnd + 5
                   ELSE textEnd + 5 + ReadBER4(payload, textEnd + 2)
  IN  kind = "GetLogEventResponse" /\ statusEnd > Len(payload)
=============================================================================
