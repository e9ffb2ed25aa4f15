---------------------------- MODULE MCDCSChannel ----------------------------
(***************************************************************************)
(* An instance of DCSChannel for TLC: a message of every class, with bytes *)
(* of 128 values.  Its numbers have four different digits, its 64-bit ones *)
(* an upper half, and its texts are of every length that matters: none, a  *)
(* few characters, and more than the buffers hold at first.                *)
(***************************************************************************)
EXTENDS DCSChannel, TLC

\* 1, 2, 3, 4 in base 128, and a number of three such bytes.
Digits == ((1 * 128 + 2) * 128 + 3) * 128 + 4
Long == [hi |-> Digits, lo |-> Digits + 1]
Item == (5 * 128 + 6) * 128 + 7

LongText == [i \in 1 .. 70 |-> 1 + (i % 63)]
OK == [key |-> 0, text |-> <<>>]
Failed == [key |-> 2, text |-> <<10, 63>>]

Message(kind, body) == [kind |-> kind, body |-> [requestID |-> Digits] @@ body]

Announce == Message("AnnounceRequest", [currentTime |-> Long, deviceDescription |-> LongText])
Announced ==
  Message("AnnounceResponse",
          [currentTime |-> Long, deviceDescription |-> <<33, 1>>, statusResponse |-> OK])
Lease == Message("GetNewLeaseRequest", [leaseDuration |-> Item])
Status == Message("GetStatusRequest", <<>>)
Location == Message("SetRPLLocationRequest", [playoutID |-> Item, url |-> <<40>>])
Located == Message("SetRPLLocationResponse", [statusResponse |-> Failed])
Timeline ==
  Message("UpdateTimelineRequest",
          [playoutID |-> Item, timelinePosition |-> Long, editRateNumerator |-> Long,
           editRateDenominator |-> Long, timelineExtensionCount |-> 0,
           timelineExtensions |-> <<>>])
Output(on) == Message("SetOutputModeRequest", [outputMode |-> on])
Terminate == Message("TerminateLeaseRequest", <<>>)
ListEvents == Message("GetLogEventListRequest", [timeStart |-> Long, timeStop |-> Long])
EventList ==
  Message("GetLogEventListResponse",
          [numberOfItems |-> 2, itemLength |-> 4, eventIDs |-> <<Digits, Item>>,
           statusResponse |-> OK])
GetEvent == Message("GetLogEventRequest", [eventID |-> Item])
Event ==
  Message("GetLogEventResponse",
          [logEventTextLength |-> 3, logEventText |-> <<50, 51, 52>>,
           statusResponse |-> Failed])

\* The log's answers as Execute of the client sends them: with whatever count of items, and
\* length of text, the memory held.
EventsUnset(n) ==
  Message("GetLogEventListResponse",
          [numberOfItems |-> n, itemLength |-> 4, eventIDs |-> <<>>, statusResponse |-> OK])
EventUnset(n) ==
  Message("GetLogEventResponse",
          [logEventTextLength |-> n, logEventText |-> <<>>, statusResponse |-> OK])

\* Each message, a long one before and after a short one, and the message that is
\* lost among the others; log events without text that say none, some, more than there
\* is behind, and more than a length has bytes for, and lists without items that say none
\* and some, first and behind another.
TestScripts ==
  { <<Announce, Status>>, <<Status, Announced>>, <<Lease, Terminate, Location>>,
    <<Located, Timeline>>, <<Timeline, GetEvent>>, <<Output(TRUE), Output(FALSE)>>,
    <<ListEvents, EventList>>, <<Terminate, Event>>, <<GetEvent, Announce>>,
    <<EventsUnset(3), Status>>, <<Status, EventsUnset(Digits)>>,
    <<EventsUnset(0), EventUnset(2)>>, <<EventUnset(Digits), Status>>,
    <<EventUnset(70), EventUnset(0)>> }
=============================================================================
