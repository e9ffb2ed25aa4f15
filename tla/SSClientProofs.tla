--------------------------- MODULE SSClientProofs ---------------------------
(***************************************************************************)
(* The fetching of auxiliary data for any show, any sizes of requests and  *)
(* any number of errors: one request at a time, the units queued in order  *)
(* and without a gap, and none dropped that is still ahead of the signal.  *)
(* The flag getInProgress_ carries most of it: while an operation is under *)
(* way the fetching thread does not move startEditUnit_, so the request    *)
(* and its reply are for the unit that the queue ends before.              *)
(***************************************************************************)
EXTENDS SSClient, SequenceTheorems, NaturalsInduction, WellFoundedInduction, TLAPS

\* The request under way stands in request_; the reply's blocks are counted while
\* its content is read.
RequestIsThere ==
  /\ op \in {"resolve", "connect", "write"} => request # <<>>
  /\ op # "content" => added = 0

\* The flag is clear where the fetching thread counts on it: past its look at the
\* flag, and where it is about to leave its inner loop.
FlagIsClear ==
  /\ op # "idle" => getInProgress
  /\ fetch \in {"unborn", "compute", "wait", "decide", "get"} => ~getInProgress
  /\ fetch = "loop" /\ ~pauseRequestAuxDataItem => ~getInProgress
  /\ fetch \in {"unborn", "look", "pending", "sleep", "get"} => pauseRequestAuxDataItem

\* A reply holds the units from its start on.
ReplyIsRun == \A i \in DOMAIN reply.units : reply.units[i] = reply.start + i - 1

\* The validator holds an item when it tests it, and none when it takes the next.
ItemIsHeld ==
  /\ validating = "test" => auxData # <<>>
  /\ validating = "takeNext" => auxData = <<>>

\* Without errors, the request and its reply are for startEditUnit_.
AsksForStart ==
  failures = 0 =>
    /\ request = IF op \in {"resolve", "connect", "write"} THEN <<startEditUnit>> ELSE <<>>
    /\ op \in {"statusLine", "headers", "content"} => reply.start = startEditUnit

\* Where the units queued so far end.
Reached == startEditUnit + added

\* Without errors, the queue is in order, and ends before the units to come.
QueueInOrder ==
  failures = 0 =>
    /\ \A i, j \in DOMAIN Waiting : i < j => Waiting[i] < Waiting[j]
    /\ \A i \in DOMAIN Waiting : Waiting[i] < Reached

\* Without errors and in time, all the show has up to there was queued.
AllDelivered ==
  failures = 0 /\ ~underflowed => \A unit \in Units : unit < Reached => unit \in delivered

USE DEF sharedVars, fetchVars, opVars, validVars, history

LEMMA ConstantTypes ==
  /\ LastFrame \in Nat /\ Units \subseteq 0 .. LastFrame
  /\ EditUnitsPerRequest \in Nat \ {0} /\ ServersMaximum \in Nat \ {0}
  /\ AheadToRequest \in Nat /\ AheadToInitiate \in Nat /\ MaxFailures \in Nat
  BY SSClientAssumption

-----------------------------------------------------------------------------
(* What a request is answered.                                             *)

LEMMA LeastNatural ==
  ASSUME NEW T \in SUBSET Nat, T # {}
  PROVE  \E n \in T : \A k \in T : n <= k
<1> DEFINE Less == {p \in Nat \X Nat : p[1] < p[2]}
<1>1. IsWellFoundedOn(Less, Nat)
  BY NatLessThanWellFounded DEF OpToRel
<1>2. \E n \in T : \A k \in T : ~ (<<k, n>> \in Less)
  <2> HIDE DEF Less
  <2> QED
    BY <1>1, WFMin
<1>3. PICK n \in T : \A k \in T : ~ (<<k, n>> \in Less)
  BY <1>2
<1>4. ASSUME NEW k \in T
      PROVE  n <= k
  <2>1. ~ (<<k, n>> \in Less) /\ k \in Nat /\ n \in Nat
    BY <1>3
  <2>2. <<k, n>>[1] = k /\ <<k, n>>[2] = n
    OBVIOUS
  <2>3. QED
    BY <2>1, <2>2
<1>5. QED
  BY <1>4

\* The units that are found end before the first that is missing, or are as many as
\* were asked for.
LEMMA RunExists ==
  ASSUME NEW start \in Int, NEW count \in Nat
  PROVE  \E n \in 0 .. count : /\ start .. start + n - 1 \subseteq Units
                               /\ n = count \/ start + n \notin Units
<1> DEFINE Ends == {n \in Nat : n = count \/ start + n \notin Units}
<1>1. Ends \in SUBSET Nat /\ count \in Ends
  OBVIOUS
<1>2. PICK n \in Ends : \A k \in Ends : n <= k
  BY <1>1, LeastNatural
<1>3. n \in 0 .. count /\ (n = count \/ start + n \notin Units)
  BY <1>1, <1>2
<1>4. ASSUME NEW unit \in start .. start + n - 1
      PROVE  unit \in Units
  <2>1. unit - start \in Nat /\ unit - start < n /\ start + (unit - start) = unit
    BY <1>3, <1>4
  <2>2. unit - start \notin Ends
    BY <1>2, <2>1
  <2>3. QED
    BY <2>1, <2>2
<1>5. QED
  BY <1>3, <1>4

LEMMA AnswerIsRun ==
  ASSUME NEW start \in Int
  PROVE  /\ Answer(start) \in Replies /\ Answer(start).start = start
         /\ \A i \in DOMAIN Answer(start).units : Answer(start).units[i] = start + i - 1
<1> DEFINE count == IF EditUnitsPerRequest > ServersMaximum THEN ServersMaximum
                                                           ELSE EditUnitsPerRequest
           IsRead(n) == /\ start .. start + n - 1 \subseteq Units
                        /\ n = count \/ start + n \notin Units
           read == CHOOSE n \in 0 .. count : IsRead(n)
           units == [i \in 1 .. read |-> start + i - 1]
<1>1. count \in Nat
  BY ConstantTypes
<1>2. \E n \in 0 .. count : IsRead(n)
  <2> HIDE DEF count
  <2> QED
    BY <1>1, RunExists
<1>3. read \in 0 .. count /\ IsRead(read)
  <2> HIDE DEF IsRead, count
  <2> QED
    BY <1>2
<1>4. Answer(start) = [start |-> start, units |-> units]
  BY DEF Answer
<1> HIDE DEF count, read
<1>5. read \in Nat /\ start .. start + read - 1 \subseteq Units
  BY <1>1, <1>3
<1>6. \A i \in 1 .. read : start + i - 1 \in Units
  BY <1>5
<1>7. units \in Seq(Units)
  BY <1>5, <1>6
<1>8. QED
  BY <1>4, <1>5, <1>7 DEF Replies

-----------------------------------------------------------------------------
(* The flag.                                                               *)

LEMMA FlagStaysClear == Spec => []FlagIsClear
<1>1. Init => FlagIsClear
  BY DEF Init, FlagIsClear
<1>2. FlagIsClear /\ [Next]_vars => FlagIsClear'
  <2> SUFFICES ASSUME FlagIsClear, [Next]_vars
               PROVE  FlagIsClear'
    OBVIOUS
  <2>1. CASE SetServerAndPort
    BY <2>1 DEF FlagIsClear, SetServerAndPort, GET
  <2>2. CASE Handler
    <3> USE <2>2 DEF FlagIsClear, Handler, OpDone
    <3>1. CASE handle_resolve \/ handle_connect \/ handle_write_request
      BY <3>1 DEF handle_resolve, handle_connect, handle_write_request
    <3>2. CASE handle_read_status_line \/ handle_read_headers \/ handle_read_content \/ CutShort
      BY <3>2 DEF handle_read_status_line, handle_read_headers, handle_read_content, CutShort,
                  ContentEnds
    <3>3. CASE AddDataItem \/ Refuse
      BY <3>3 DEF AddDataItem, Refuse
    <3>4. CASE Fail
      BY <3>4 DEF Fail, HandleError
    <3>5. QED
      BY <3>1, <3>2, <3>3, <3>4
  <2>3. CASE RequestAuxDataItem
    <3> USE <2>3 DEF FlagIsClear, RequestAuxDataItem
    <3>1. CASE ReadCurrentFrame \/ Look \/ LookWhileInProgress
      BY <3>1 DEF ReadCurrentFrame, Look, LookWhileInProgress, FetchesOn
    <3>2. CASE ComputeNextFetch \/ WakeUp \/ DecideToFetch
      BY <3>2 DEF ComputeNextFetch, WakeUp, DecideToFetch
    <3>3. CASE LeavePause
      BY <3>3 DEF LeavePause, FetchesOn
    <3>4. CASE StartGET
      BY <3>4 DEF StartGET, GET
    <3>5. QED
      BY <3>1, <3>2, <3>3, <3>4
  <2>4. CASE Destroy
    BY <2>4 DEF FlagIsClear, Destroy
  <2>5. CASE Packets
    BY <2>5 DEF FlagIsClear, Packets
  <2>6. CASE UNCHANGED vars
    BY <2>6 DEF FlagIsClear, vars
  <2>7. QED
    BY <2>1, <2>2, <2>3, <2>4, <2>5, <2>6 DEF Next
<1>3. QED
  BY <1>1, <1>2, PTL DEF Spec

\* Whatever errors the operations of a GET meet, and however the threads interleave,
\* no other is started before they end: request_, response_ and socket_ are never
\* those of two.
THEOREM OneRequestAtATime == Spec => []OneRequestInFlight
<1>1. FlagIsClear => OneRequestInFlight
  BY DEF FlagIsClear, OneRequestInFlight
<1>2. QED
  BY <1>1, FlagStaysClear, PTL

-----------------------------------------------------------------------------
(* Types.                                                                  *)

TypeInv == TypeOK /\ RequestIsThere /\ ReplyIsRun /\ ItemIsHeld

LEMMA InitTypeInv == Init => TypeInv
<1> SUFFICES ASSUME Init
             PROVE  TypeInv
  OBVIOUS
<1> USE ConstantTypes DEF Init
<1>0. FlagType
  BY DEF FlagType
<1>1. SharedType /\ FetchType
  BY DEF SharedType, FetchType
<1>2. OpType
  BY DEF OpType, Ops, Replies, NoReply
<1>3. ValidType /\ HistoryType
  BY DEF ValidType, HistoryType
<1>4. RequestIsThere /\ ReplyIsRun /\ ItemIsHeld
  BY DEF RequestIsThere, ReplyIsRun, ItemIsHeld, NoReply
<1>5. QED
  BY <1>0, <1>1, <1>2, <1>3, <1>4 DEF TypeInv, TypeOK

\* A request is written behind those that wait, for the unit fetched next.
LEMMA GETTypes ==
  ASSUME SharedType, OpType, RequestIsThere, ReplyIsRun, GET, added = 0
  PROVE  SharedType' /\ OpType' /\ RequestIsThere' /\ ReplyIsRun'
<1>1. Append(request, startEditUnit) \in Seq(Int) /\ Append(request, startEditUnit) # <<>>
  BY AppendProperties DEF SharedType
<1>2. SharedType'
  BY <1>1 DEF SharedType, GET
<1>3. OpType' /\ RequestIsThere' /\ ReplyIsRun'
  BY <1>1 DEF OpType, Ops, RequestIsThere, ReplyIsRun, GET
<1>4. QED
  BY <1>2, <1>3

LEMMA FlagsKeepTypes ==
  ASSUME FlagType, Next
  PROVE  FlagType'
<1>1. CASE SetServerAndPort
  BY <1>1 DEF FlagType, SetServerAndPort, GET
<1>2. CASE Handler
  <2> USE <1>2 DEF FlagType, Handler
  <2>1. CASE /\ handle_resolve \/ handle_connect \/ handle_write_request
             /\ UNCHANGED <<auxDataQueue, history>>
    BY <2>1 DEF handle_resolve, handle_connect, handle_write_request
  <2>2. CASE /\ handle_read_status_line \/ handle_read_headers \/ handle_read_content
             /\ UNCHANGED <<auxDataQueue, history>>
    BY <2>2 DEF handle_read_status_line, handle_read_headers, handle_read_content, ContentEnds
  <2>3. CASE AddDataItem \/ Refuse \/ CutShort
    BY <2>3 DEF AddDataItem, Refuse, CutShort, ContentEnds
  <2>4. CASE Fail
    BY <2>4 DEF Fail, HandleError
  <2>5. QED
    BY <2>1, <2>2, <2>3, <2>4
<1>3. CASE RequestAuxDataItem
  <2> USE <1>3 DEF FlagType, RequestAuxDataItem
  <2>1. CASE ReadCurrentFrame \/ Look \/ LookWhileInProgress \/ WakeUp \/ LeavePause
    BY <2>1 DEF ReadCurrentFrame, Look, LookWhileInProgress, WakeUp, LeavePause
  <2>2. CASE ComputeNextFetch \/ DecideToFetch
    BY <2>2 DEF ComputeNextFetch, DecideToFetch
  <2>3. CASE StartGET
    BY <2>3 DEF StartGET, GET
  <2>4. QED
    BY <2>1, <2>2, <2>3
<1>4. CASE Destroy
  BY <1>4 DEF FlagType, Destroy
<1>5. CASE Packets
  BY <1>5 DEF FlagType, Packets, HandleFrame, Validate, TakeItem, TestItem, TakeNextItem
<1>6. QED
  BY <1>1, <1>2, <1>3, <1>4, <1>5 DEF Next

\* However much of the content came.
LEMMA EndOfContentTypes ==
  ASSUME TypeInv, ContentEnds
  PROVE  SharedType' /\ OpType' /\ RequestIsThere' /\ ReplyIsRun'
<1> USE DEF TypeInv, TypeOK, ContentEnds, OpDone, EndOfReply
<1>1. reply.start \in Int /\ Len(reply.units) \in Nat
  BY DEF OpType, Replies
<1>2. SharedType'
  BY <1>1 DEF SharedType, FlagType
<1>3. OpType' /\ RequestIsThere' /\ ReplyIsRun'
  BY DEF OpType, Ops, Replies, RequestIsThere, ReplyIsRun, NoReply
<1>4. QED
  BY <1>2, <1>3

LEMMA HandlerTypes ==
  ASSUME TypeInv, Handler
  PROVE  TypeInv'
<1> USE DEF TypeInv, TypeOK
<1>0. FlagType'
  BY FlagsKeepTypes DEF Next
<1>1. FetchType' /\ ItemIsHeld'
  BY DEF Handler, FetchType, ItemIsHeld
<1>2. CASE /\ handle_resolve \/ handle_connect \/ handle_write_request
              \/ handle_read_status_line \/ handle_read_headers \/ handle_read_content
           /\ UNCHANGED <<auxDataQueue, history>>
  <2>1. ValidType' /\ HistoryType'
    BY <1>2 DEF Handler, ValidType, HistoryType
  <2>2. CASE handle_resolve \/ handle_connect \/ handle_read_status_line \/ handle_read_headers
    <3>1. SharedType'
      BY <2>2 DEF Handler, SharedType, handle_resolve, handle_connect,
                  handle_read_status_line, handle_read_headers
    <3>2. OpType' /\ RequestIsThere' /\ ReplyIsRun'
      BY <2>2 DEF OpType, Ops, RequestIsThere, ReplyIsRun, handle_resolve, handle_connect,
                  handle_read_status_line, handle_read_headers, OpDone
    <3>3. QED
      BY <1>0, <1>1, <2>1, <3>1, <3>2
  <2>3. CASE handle_write_request
    <3> USE <2>3 DEF handle_write_request, OpDone
    <3>1. request # <<>> /\ Head(request) \in Int /\ added = 0
      BY HeadTailProperties DEF RequestIsThere, SharedType
    <3>2. /\ reply' \in Replies
          /\ \A i \in DOMAIN reply'.units : reply'.units[i] = reply'.start + i - 1
      BY <3>1, AnswerIsRun
    <3>3. SharedType'
      BY DEF Handler, SharedType
    <3>4. Len(reply'.units) \in Nat
      BY <3>2 DEF Replies
    <3>5. OpType' /\ RequestIsThere' /\ ReplyIsRun'
      BY <3>1, <3>2, <3>4 DEF OpType, Ops, RequestIsThere, ReplyIsRun
    <3>6. QED
      BY <1>0, <1>1, <2>1, <3>3, <3>5
  <2>4. CASE handle_read_content
    BY <1>0, <1>1, <2>1, <2>4, EndOfContentTypes DEF handle_read_content
  <2>5. QED
    BY <1>2, <2>2, <2>3, <2>4
<1>3. CASE AddDataItem
  <2> USE <1>3 DEF AddDataItem
  <2>1. added' \in 1 .. Len(reply.units) /\ reply.units[added'] \in Units
    BY ElementOfSeq DEF OpType, Replies
  <2>2. Append(auxDataQueue, reply.units[added']) \in Seq(Units)
    BY <2>1, AppendProperties DEF ValidType
  <2>3. SharedType' /\ HistoryType'
    BY <2>1 DEF Handler, SharedType, HistoryType
  <2>4. OpType' /\ RequestIsThere' /\ ReplyIsRun'
    BY <2>1 DEF OpType, RequestIsThere, ReplyIsRun
  <2>5. ValidType'
    BY <2>2 DEF Handler, ValidType
  <2>6. QED
    BY <1>0, <1>1, <2>3, <2>4, <2>5
<1>4. CASE Refuse
  <2> USE <1>4 DEF Refuse, OpDone
  <2>1. SharedType' /\ ValidType'
    BY DEF Handler, SharedType, ValidType
  <2>2. HistoryType'
    BY ConstantTypes DEF HistoryType
  <2>3. OpType' /\ RequestIsThere' /\ ReplyIsRun'
    BY DEF OpType, Ops, RequestIsThere, ReplyIsRun
  <2>4. QED
    BY <1>0, <1>1, <2>1, <2>2, <2>3
<1>5. CASE Fail
  <2> USE <1>5 DEF Fail, HandleError
  <2>1. SharedType'
    <3>1. request' \in Seq(Int)
      BY EmptySeq DEF SharedType
    <3>2. QED
      BY <3>1, ConstantTypes DEF SharedType
  <2>2. ValidType' /\ HistoryType'
    BY ConstantTypes DEF Handler, ValidType, HistoryType
  <2>3. OpType' /\ RequestIsThere' /\ ReplyIsRun'
    BY DEF OpType, Ops, Replies, RequestIsThere, ReplyIsRun, NoReply
  <2>4. QED
    BY <1>0, <1>1, <2>1, <2>2, <2>3
<1>6. CASE CutShort
  <2>1. ValidType' /\ HistoryType'
    BY <1>6, ConstantTypes DEF CutShort, Handler, ValidType, HistoryType
  <2>2. QED
    BY <1>0, <1>1, <1>6, <2>1, EndOfContentTypes DEF CutShort
<1>7. QED
  BY <1>2, <1>3, <1>4, <1>5, <1>6 DEF Handler

LEMMA FetchingTypes ==
  ASSUME TypeInv, FlagIsClear, RequestAuxDataItem \/ SetServerAndPort
  PROVE  TypeInv'
<1> USE DEF TypeInv, TypeOK
<1>0. FlagType'
  BY FlagsKeepTypes DEF Next
<1>1. ValidType' /\ ItemIsHeld'
  BY DEF RequestAuxDataItem, SetServerAndPort, ValidType, ItemIsHeld
<1>2. CASE ComputeNextFetch
  <2> USE <1>2 DEF ComputeNextFetch
  <2>1. startEditUnit' \in Int /\ frameToStartNextFetchOn' \in Nat
    BY ConstantTypes DEF SharedType, FetchType, NextFetchOn
  <2>2. SharedType' /\ FetchType'
    BY <2>1 DEF RequestAuxDataItem, SetServerAndPort, SharedType, FetchType
  <2>3. OpType' /\ RequestIsThere' /\ ReplyIsRun'
    BY DEF OpType, RequestIsThere, ReplyIsRun
  <2>4. HistoryType'
    BY DEF HistoryType, SharedType, FetchType
  <2>5. QED
    BY <1>0, <1>1, <2>2, <2>3, <2>4
<1>3. CASE ReadCurrentFrame \/ Look \/ LookWhileInProgress \/ WakeUp \/ DecideToFetch
           \/ LeavePause
  <2>1. UNCHANGED <<sharedVars, opVars, history>>
    BY <1>3 DEF ReadCurrentFrame, Look, LookWhileInProgress, WakeUp, DecideToFetch, LeavePause
  <2>2. FetchType'
    BY <1>3 DEF ReadCurrentFrame, Look, LookWhileInProgress, WakeUp, DecideToFetch, LeavePause, FetchType,
                ValidType, CurrentFrameCallback, SharedType
  <2>4. SharedType' /\ HistoryType'
    BY <2>1 DEF SharedType, HistoryType
  <2>5. OpType' /\ RequestIsThere' /\ ReplyIsRun'
    BY <2>1 DEF OpType, RequestIsThere, ReplyIsRun
  <2>6. QED
    BY <1>0, <1>1, <2>2, <2>4, <2>5
<1>4. CASE StartGET
  <2> USE <1>4 DEF StartGET
  <2>1. ~getInProgress /\ op = "idle"
    BY DEF FlagIsClear
  <2>2. GET /\ added = 0
    BY <2>1 DEF RequestIsThere
  <2>3. SharedType' /\ OpType' /\ RequestIsThere' /\ ReplyIsRun'
    BY <2>2, GETTypes
  <2>4. FetchType' /\ HistoryType'
    BY DEF FetchType, HistoryType
  <2>5. QED
    BY <1>0, <1>1, <2>3, <2>4
<1>5. CASE SetServerAndPort
  <2> USE <1>5 DEF SetServerAndPort
  <2>1. added = 0
    BY DEF FlagIsClear, RequestIsThere
  <2>2. SharedType' /\ OpType' /\ RequestIsThere' /\ ReplyIsRun'
    BY <2>1, GETTypes
  <2>3. FetchType' /\ HistoryType'
    BY DEF FetchType, HistoryType
  <2>4. QED
    BY <1>0, <1>1, <2>2, <2>3
<1>6. QED
  BY <1>2, <1>3, <1>4, <1>5 DEF RequestAuxDataItem

LEMMA ShortSequences ==
  ASSUME NEW S
  PROVE  /\ \A s \in Seq(S) : s # <<>> /\ Len(s) <= 1 => Len(s) = 1 /\ s[1] \in S /\ s = <<s[1]>>
         /\ <<>> \in Seq(S) /\ Len(<<>>) = 0
         /\ \A x \in S : <<x>> \in Seq(S) /\ Len(<<x>>) = 1 /\ <<x>> # <<>>
<1>1. ASSUME NEW s \in Seq(S), s # <<>>, Len(s) <= 1
      PROVE  Len(s) = 1 /\ s[1] \in S /\ s = <<s[1]>>
  <2>1. Len(s) \in Nat \ {0}
    BY <1>1, EmptySeq
  <2>2. Len(s) = 1
    BY <1>1, <2>1
  <2>3. s[1] \in S
    BY <2>2
  <2>4. s = <<s[1]>>
    BY <2>2
  <2>5. QED
    BY <2>2, <2>3, <2>4
<1>2. <<>> \in Seq(S) /\ Len(<<>>) = 0
  OBVIOUS
<1>3. ASSUME NEW x \in S
      PROVE  <<x>> \in Seq(S) /\ Len(<<x>>) = 1 /\ <<x>> # <<>>
  OBVIOUS
<1>4. QED
  BY <1>1, <1>2, <1>3

\* The item under test, and its frame.
LEMMA HeldItem ==
  ASSUME ValidType, auxData # <<>>
  PROVE  /\ Len(auxData) = 1 /\ auxData = <<auxData[1]>>
         /\ auxData[1] \in Units /\ auxData[1] \in Int /\ currentFrame \in Int
<1>1. auxData \in Seq(Units) /\ Len(auxData) <= 1 /\ currentFrame \in 0 .. LastFrame
  BY DEF ValidType
<1>2. Len(auxData) = 1 /\ auxData[1] \in Units /\ auxData = <<auxData[1]>>
  BY <1>1, ShortSequences
<1>3. QED
  BY <1>1, <1>2, ConstantTypes

LEMMA TestItemDoes ==
  ASSUME ValidType, ItemIsHeld, TestItem
  PROVE  /\ auxData # <<>> /\ UNCHANGED <<auxDataQueue, currentFrame>>
         /\ \/ auxData' = <<>> /\ auxData[1] <= currentFrame /\ validating' \in {"idle", "takeNext"}
            \/ auxData' = auxData /\ auxData[1] > currentFrame /\ validating' = "idle"
<1>1. auxData # <<>> /\ UNCHANGED <<auxDataQueue, currentFrame>>
  BY DEF ItemIsHeld, TestItem
<1>2. auxData[1] \in Int /\ currentFrame \in Int
  BY <1>1, HeldItem
<1>3. QED
  BY <1>1, <1>2 DEF TestItem

LEMMA ValidationTypes ==
  ASSUME ValidType, ItemIsHeld, HandleFrame \/ Validate
  PROVE  ValidType' /\ ItemIsHeld'
<1>1. auxDataQueue # <<>> =>
        /\ <<Head(auxDataQueue)>> \in Seq(Units) /\ Tail(auxDataQueue) \in Seq(Units)
        /\ Len(<<Head(auxDataQueue)>>) = 1 /\ <<Head(auxDataQueue)>> # <<>>
  BY HeadTailProperties, ShortSequences DEF ValidType
<1>2. CASE HandleFrame
  <2>1. /\ currentFrame' \in 0 .. LastFrame /\ validating' = "take"
        /\ UNCHANGED <<auxData, auxDataQueue>>
    BY <1>2 DEF HandleFrame
  <2>2. QED
    BY <2>1 DEF ValidType, ItemIsHeld
<1>3. CASE TakeItem
  <2>1. CASE /\ auxData # <<>> /\ validating' = "test"
             /\ UNCHANGED <<auxData, auxDataQueue, currentFrame>>
    BY <2>1 DEF ValidType, ItemIsHeld
  <2>2. CASE /\ auxDataQueue # <<>> /\ validating' = "test" /\ UNCHANGED currentFrame
             /\ auxData' = <<Head(auxDataQueue)>> /\ auxDataQueue' = Tail(auxDataQueue)
    BY <2>2, <1>1 DEF ValidType, ItemIsHeld
  <2>3. CASE validating' = "idle" /\ UNCHANGED <<auxData, auxDataQueue, currentFrame>>
    BY <2>3 DEF ValidType, ItemIsHeld
  <2>4. QED
    BY <1>3, <2>1, <2>2, <2>3, Zenon DEF TakeItem
<1>4. CASE TestItem
  <2>1. auxData' \in {auxData, <<>>}
    BY <1>4, TestItemDoes
  <2>2. auxData' \in Seq(Units) /\ Len(auxData') <= 1
    <3>1. auxData \in Seq(Units) /\ Len(auxData) <= 1
      BY DEF ValidType
    <3>2. <<>> \in Seq(Units) /\ Len(<<>>) <= 1
      BY ShortSequences
    <3>3. QED
      BY <2>1, <3>1, <3>2
  <2>3. QED
    BY <1>4, <2>1, <2>2, TestItemDoes DEF ValidType, ItemIsHeld
<1>5. CASE TakeNextItem
  <2>1. CASE auxDataQueue = <<>>
    <3>1. UNCHANGED <<auxData, auxDataQueue, currentFrame>> /\ validating' = "idle"
      BY <1>5, <2>1 DEF TakeNextItem
    <3>2. QED
      BY <3>1 DEF ValidType, ItemIsHeld
  <2>2. CASE auxDataQueue # <<>>
    <3>1. /\ auxData' = <<Head(auxDataQueue)>> /\ auxDataQueue' = Tail(auxDataQueue)
          /\ validating' = "test" /\ UNCHANGED currentFrame
      BY <1>5, <2>2 DEF TakeNextItem
    <3>2. QED
      BY <2>2, <3>1, <1>1 DEF ValidType, ItemIsHeld
  <2>3. QED
    BY <2>1, <2>2
<1>6. QED
  BY <1>2, <1>3, <1>4, <1>5 DEF Validate

LEMMA PacketsTypes ==
  ASSUME TypeInv, Packets
  PROVE  TypeInv'
<1> USE DEF TypeInv, TypeOK, Packets
<1>1. FlagType'
  BY FlagsKeepTypes DEF Next
<1>2. SharedType' /\ FetchType' /\ HistoryType'
  BY DEF SharedType, FetchType, HistoryType
<1>3. OpType' /\ RequestIsThere' /\ ReplyIsRun'
  BY DEF OpType, RequestIsThere, ReplyIsRun
<1>4. QED
  BY <1>1, <1>2, <1>3, ValidationTypes

LEMMA OthersTypes ==
  ASSUME TypeInv, Destroy \/ UNCHANGED vars
  PROVE  TypeInv'
<1> USE DEF TypeInv, TypeOK, Destroy, vars
<1>1. FlagType'
  BY DEF FlagType
<1>2. SharedType' /\ FetchType' /\ HistoryType'
  BY DEF SharedType, FetchType, HistoryType
<1>3. OpType' /\ RequestIsThere' /\ ReplyIsRun'
  BY DEF OpType, RequestIsThere, ReplyIsRun
<1>4. ValidType' /\ ItemIsHeld'
  BY DEF ValidType, ItemIsHeld
<1>5. QED
  BY <1>1, <1>2, <1>3, <1>4

LEMMA TypesAreKept == Spec => []TypeInv
<1>1. TypeInv /\ FlagIsClear /\ [Next]_vars => TypeInv'
  BY HandlerTypes, FetchingTypes, PacketsTypes, OthersTypes DEF Next
<1>2. QED
  BY <1>1, InitTypeInv, FlagStaysClear, PTL DEF Spec

\* The variables of the client keep their types, for any show and any errors.
THEOREM FetchTypes == Spec => []TypeOK
<1>1. TypeInv => TypeOK
  BY DEF TypeInv
<1>2. QED
  BY <1>1, TypesAreKept, PTL

-----------------------------------------------------------------------------
(* What waits for the validator.                                           *)

LEMMA QueueLemma ==
  ASSUME NEW S, NEW s \in Seq(S), NEW t \in Seq(S)
  PROVE  /\ s \o t \in Seq(S)
         /\ \A x \in S : s \o Append(t, x) = Append(s \o t, x)
         /\ t # <<>> => <<Head(t)>> \o Tail(t) = t
         /\ <<>> \o t = t
         /\ \A x \in S : Tail(<<x>> \o t) = t /\ (<<x>> \o t)[1] = x /\ <<x>> \o t # <<>>
<1>1. s \o t \in Seq(S) /\ <<>> \o t = t
  OBVIOUS
<1>2. ASSUME NEW x \in S
      PROVE  s \o Append(t, x) = Append(s \o t, x)
  OBVIOUS
<1>3. ASSUME t # <<>>
      PROVE  <<Head(t)>> \o Tail(t) = t
  <2>1. /\ Head(t) = t[1] /\ Head(t) \in S /\ Tail(t) \in Seq(S)
        /\ Len(Tail(t)) = Len(t) - 1 /\ Len(t) \in Nat \ {0}
        /\ \A i \in 1 .. Len(t) - 1 : Tail(t)[i] = t[i + 1]
    BY <1>3, HeadTailProperties, LenProperties, EmptySeq
  <2>2. QED
    BY <2>1, SeqEqual, ConcatProperties
<1>4. ASSUME NEW x \in S
      PROVE  Tail(<<x>> \o t) = t /\ (<<x>> \o t)[1] = x /\ <<x>> \o t # <<>>
  OBVIOUS
<1>5. QED
  BY <1>1, <1>2, <1>3, <1>4

\* The packets leave what waits as it is, or drop the first of it, once its frame is there.
Dropped == Waiting # <<>> /\ Waiting' = Tail(Waiting) /\ Waiting[1] <= currentFrame

LEMMA PacketsDrop ==
  ASSUME ValidType, ItemIsHeld, HandleFrame \/ Validate
  PROVE  Waiting \in Seq(Units) /\ (Waiting' = Waiting \/ Dropped)
<1>1. auxData \in Seq(Units) /\ auxDataQueue \in Seq(Units)
  BY DEF ValidType
<1>2. CASE auxData' = auxData /\ auxDataQueue' = auxDataQueue
  BY <1>1, <1>2, QueueLemma DEF Waiting
<1>3. CASE /\ auxData = <<>> /\ auxDataQueue # <<>>
           /\ auxData' = <<Head(auxDataQueue)>> /\ auxDataQueue' = Tail(auxDataQueue)
  BY <1>1, <1>3, QueueLemma DEF Waiting
<1>4. CASE /\ auxData # <<>> /\ auxData[1] <= currentFrame
           /\ auxData' = <<>> /\ auxDataQueue' = auxDataQueue
  <2>1. PICK item \in Units : auxData = <<item>> /\ auxData[1] = item
    BY <1>4, HeldItem
  <2>2. /\ Waiting \in Seq(Units) /\ Waiting # <<>> /\ Tail(Waiting) = auxDataQueue
        /\ Waiting[1] = auxData[1]
    BY <1>1, <2>1, QueueLemma DEF Waiting
  <2>3. Waiting' = auxDataQueue
    BY <1>1, <1>4, QueueLemma DEF Waiting
  <2>4. QED
    BY <1>4, <2>2, <2>3 DEF Dropped
<1>5. CASE HandleFrame
  BY <1>2, <1>5 DEF HandleFrame
<1>6. CASE TakeItem
  BY <1>2, <1>3, <1>6 DEF TakeItem
<1>7. CASE TestItem
  BY <1>2, <1>4, <1>7, TestItemDoes
<1>8. CASE TakeNextItem
  BY <1>2, <1>3, <1>8 DEF TakeNextItem, ItemIsHeld
<1>9. QED
  BY <1>5, <1>6, <1>7, <1>8 DEF Validate

\* Where a sequence of units grows and shrinks at its ends.
LEMMA EndsOfQueue ==
  ASSUME NEW w \in Seq(Units)
  PROVE  /\ DOMAIN w = 1 .. Len(w) /\ Len(w) \in Nat /\ \A i \in DOMAIN w : w[i] \in Int
         /\ \A unit \in Units :
              /\ DOMAIN Append(w, unit) = 1 .. Len(w) + 1
              /\ Append(w, unit)[Len(w) + 1] = unit
              /\ \A i \in 1 .. Len(w) : Append(w, unit)[i] = w[i]
         /\ w # <<>> => /\ DOMAIN Tail(w) = 1 .. Len(w) - 1
                        /\ \A i \in 1 .. Len(w) - 1 : Tail(w)[i] = w[i + 1]
<1>1. DOMAIN w = 1 .. Len(w) /\ Len(w) \in Nat /\ \A i \in DOMAIN w : w[i] \in Int
  <2>1. DOMAIN w = 1 .. Len(w) /\ Len(w) \in Nat /\ \A i \in DOMAIN w : w[i] \in Units
    OBVIOUS
  <2>2. \A unit \in Units : unit \in Int
    BY ConstantTypes
  <2>3. QED
    BY <2>1, <2>2
<1>2. ASSUME NEW unit \in Units
      PROVE  /\ DOMAIN Append(w, unit) = 1 .. Len(w) + 1
             /\ Append(w, unit)[Len(w) + 1] = unit
             /\ \A i \in 1 .. Len(w) : Append(w, unit)[i] = w[i]
  OBVIOUS
<1>3. ASSUME w # <<>>
      PROVE  /\ DOMAIN Tail(w) = 1 .. Len(w) - 1
             /\ \A i \in 1 .. Len(w) - 1 : Tail(w)[i] = w[i + 1]
  BY <1>3, HeadTailProperties, LenProperties
<1>4. QED
  BY <1>1, <1>2, <1>3

\* A queued unit that is dropped has had its frame, whatever fails.
THEOREM NothingAheadIsDropped == Spec => []KeepsWhatIsAhead
<1>1. Init => KeepsWhatIsAhead
  BY DEF Init, KeepsWhatIsAhead
<1>2. TypeInv /\ KeepsWhatIsAhead /\ [Next]_vars => KeepsWhatIsAhead'
  <2> SUFFICES ASSUME TypeInv, KeepsWhatIsAhead, [Next]_vars
               PROVE  KeepsWhatIsAhead'
    OBVIOUS
  <2> USE DEF TypeInv, TypeOK
  <2>1. CASE UNCHANGED <<auxDataQueue, auxData, currentFrame, delivered>>
    BY <2>1 DEF KeepsWhatIsAhead, Waiting
  <2>2. CASE Handler /\ AddDataItem
    <3> DEFINE unit == reply.units[added']
    <3>1. /\ unit \in Units /\ auxDataQueue' = Append(auxDataQueue, unit)
          /\ delivered' = delivered \cup {unit} /\ UNCHANGED <<auxData, currentFrame>>
      <4>1. added' \in 1 .. Len(reply.units)
        BY <2>2 DEF AddDataItem, OpType, Replies
      <4>2. QED
        BY <2>2, <4>1, ElementOfSeq DEF Handler, AddDataItem, OpType, Replies
    <3> HIDE DEF unit
    <3>2. Waiting \in Seq(Units) /\ Waiting' = Append(Waiting, unit)
      BY <3>1, QueueLemma DEF ValidType, Waiting
    <3>3. /\ Len(Waiting) \in Nat /\ DOMAIN Waiting = 1 .. Len(Waiting)
          /\ DOMAIN Waiting' = 1 .. Len(Waiting) + 1 /\ Waiting'[Len(Waiting) + 1] = unit
          /\ \A i \in 1 .. Len(Waiting) : Waiting'[i] = Waiting[i]
      BY <3>1, <3>2, EndsOfQueue
    <3>4. ASSUME NEW other \in delivered', other > currentFrame'
          PROVE  \E i \in DOMAIN Waiting' : Waiting'[i] = other
      <4>1. CASE other = unit
        BY <3>3, <4>1
      <4>2. CASE other # unit
        <5>1. PICK i \in DOMAIN Waiting : Waiting[i] = other
          BY <3>1, <3>4, <4>2 DEF KeepsWhatIsAhead
        <5>2. QED
          BY <3>3, <5>1
      <4>3. QED
        BY <4>1, <4>2
    <3>5. QED
      BY <3>4 DEF KeepsWhatIsAhead
  <2>3. CASE Packets
    <3>1. /\ delivered' = delivered /\ currentFrame' >= currentFrame
          /\ currentFrame \in Int /\ currentFrame' \in Int
      BY <2>3, ConstantTypes DEF Packets, HandleFrame, Validate, TakeItem, TestItem, TakeNextItem,
                                 ValidType
    <3>2. Waiting \in Seq(Units) /\ (Waiting' = Waiting \/ Dropped)
      BY <2>3, PacketsDrop DEF Packets
    <3>3. CASE Waiting' = Waiting
      BY <3>1, <3>3, ConstantTypes DEF KeepsWhatIsAhead, HistoryType
    <3>4. CASE Dropped
      <4> SUFFICES ASSUME NEW unit \in delivered, unit > currentFrame'
                   PROVE  \E i \in DOMAIN Waiting' : Waiting'[i] = unit
        BY <3>1 DEF KeepsWhatIsAhead
      <4>1. unit \in Int /\ unit > currentFrame
        BY <3>1, ConstantTypes DEF HistoryType
      <4>2. PICK i \in DOMAIN Waiting : Waiting[i] = unit
        BY <4>1 DEF KeepsWhatIsAhead
      <4>3. i # 1
        BY <3>1, <3>4, <4>1, <4>2 DEF Dropped
      <4>4. i - 1 \in DOMAIN Tail(Waiting) /\ Tail(Waiting)[i - 1] = unit
        BY <3>2, <3>4, <4>2, <4>3, EndsOfQueue DEF Dropped
      <4>5. QED
        BY <3>4, <4>4 DEF Dropped
    <3>5. QED
      BY <3>2, <3>3, <3>4
  <2>4. CASE Handler /\ ~AddDataItem
    BY <2>1, <2>4 DEF Handler, Refuse, CutShort, Fail
  <2>5. CASE RequestAuxDataItem
    BY <2>1, <2>5 DEF RequestAuxDataItem, ReadCurrentFrame, Look, LookWhileInProgress,
                      ComputeNextFetch, WakeUp, DecideToFetch, LeavePause, StartGET
  <2>6. CASE SetServerAndPort \/ Destroy \/ UNCHANGED vars
    BY <2>1, <2>6 DEF SetServerAndPort, Destroy, vars
  <2>7. QED
    BY <2>2, <2>3, <2>4, <2>5, <2>6 DEF Next
<1>3. QED
  BY <1>1, <1>2, TypesAreKept, PTL DEF Spec

-----------------------------------------------------------------------------
(* The order, without errors.                                              *)

OrderInv == AsksForStart /\ QueueInOrder /\ AllDelivered

LEMMA InitOrderInv == Init => OrderInv
<1>1. Init => AsksForStart
  BY DEF Init, AsksForStart
<1>2. Init => QueueInOrder
  BY DEF Init, QueueInOrder, Waiting
<1>3. Init => AllDelivered
  BY ConstantTypes DEF Init, AllDelivered, Reached
<1>4. QED
  BY <1>1, <1>2, <1>3 DEF OrderInv

\* An action that moves neither end of the queue.
LEMMA OrderLeftAlone ==
  ASSUME OrderInv, UNCHANGED <<auxDataQueue, auxData, startEditUnit, added, delivered, request,
                               reply, failures, underflowed>>,
         op' = op \/ <<op, op'>> \in {<<"resolve", "connect">>, <<"connect", "write">>,
           <<"statusLine", "headers">>, <<"statusLine", "refused">>, <<"headers", "content">>}
  PROVE  OrderInv'
<1>1. AsksForStart'
  BY DEF OrderInv, AsksForStart
<1>2. QueueInOrder' /\ AllDelivered'
  BY DEF OrderInv, QueueInOrder, AllDelivered, Waiting, Reached
<1>3. QED
  BY <1>1, <1>2 DEF OrderInv

\* An error ends what is said without errors.
LEMMA FailureEndsOrder ==
  ASSUME failures' # 0
  PROVE  OrderInv'
  BY DEF OrderInv, AsksForStart, QueueInOrder, AllDelivered

LEMMA GETKeepsOrder ==
  ASSUME TypeInv, FlagIsClear, OrderInv, GET, ~getInProgress,
         UNCHANGED <<auxDataQueue, auxData, failures, delivered, underflowed>>
  PROVE  OrderInv'
<1>1. op = "idle"
  BY DEF FlagIsClear
<1>2. AsksForStart'
  <2>1. failures = 0 => request = <<>>
    BY <1>1 DEF OrderInv, AsksForStart
  <2>2. startEditUnit \in Int => Append(<<>>, startEditUnit) = <<startEditUnit>>
    OBVIOUS
  <2>3. QED
    BY <2>1, <2>2 DEF GET, AsksForStart, TypeInv, TypeOK, SharedType
<1>3. QueueInOrder' /\ AllDelivered'
  BY DEF GET, OrderInv, QueueInOrder, AllDelivered, Waiting, Reached
<1>4. QED
  BY <1>2, <1>3 DEF OrderInv

\* The unit queued next is the one the queue ends before.
LEMMA AddDataItemKeepsOrder ==
  ASSUME TypeInv, OrderInv, Handler, AddDataItem, failures = 0
  PROVE  OrderInv'
<1> USE DEF TypeInv, TypeOK
<1> DEFINE unit == reply.units[added']
<1>1. added' = added + 1 /\ added' \in 1 .. Len(reply.units) /\ added \in Nat /\ op = "content"
  BY DEF AddDataItem, OpType, Replies
<1>2. /\ unit \in Units /\ auxDataQueue' = Append(auxDataQueue, unit)
      /\ delivered' = delivered \cup {unit} /\ UNCHANGED auxData
  BY <1>1, ElementOfSeq DEF Handler, AddDataItem, OpType, Replies
<1>3. unit = Reached /\ Reached' = Reached + 1 /\ Reached \in Int
  <2>1. reply.start = startEditUnit /\ startEditUnit \in Int /\ UNCHANGED startEditUnit
    BY <1>1 DEF OrderInv, AsksForStart, AddDataItem, SharedType
  <2>2. unit = reply.start + added' - 1
    <3>1. added' \in DOMAIN reply.units
      BY <1>1 DEF OpType, Replies
    <3>2. QED
      BY <3>1 DEF ReplyIsRun
  <2>3. QED
    BY <1>1, <2>1, <2>2 DEF Reached
<1> HIDE DEF unit
<1>4. AsksForStart'
  BY DEF OrderInv, AsksForStart, AddDataItem
<1>5. QueueInOrder'
  <2>1. Waiting \in Seq(Units) /\ Waiting' = Append(Waiting, unit)
    BY <1>2, QueueLemma DEF ValidType, Waiting
  <2>2. /\ Len(Waiting) \in Nat /\ DOMAIN Waiting = 1 .. Len(Waiting)
        /\ DOMAIN Waiting' = 1 .. Len(Waiting) + 1 /\ Waiting'[Len(Waiting) + 1] = unit
        /\ \A i \in 1 .. Len(Waiting) : Waiting'[i] = Waiting[i] /\ Waiting[i] \in Int
    BY <1>2, <2>1, EndsOfQueue
  <2>3. /\ \A i, j \in DOMAIN Waiting : i < j => Waiting[i] < Waiting[j]
        /\ \A i \in DOMAIN Waiting : Waiting[i] < unit
    BY <1>3 DEF OrderInv, QueueInOrder
  <2>4. \A i, j \in DOMAIN Waiting' : i < j => Waiting'[i] < Waiting'[j]
    BY <2>2, <2>3
  <2>5. \A i \in DOMAIN Waiting' : Waiting'[i] < Reached'
    BY <1>3, <2>2, <2>3
  <2>6. QED
    BY <2>4, <2>5 DEF QueueInOrder
<1>6. AllDelivered'
  <2> SUFFICES ASSUME ~underflowed, NEW other \in Units, other < Reached + 1
               PROVE  other \in delivered'
    BY <1>3 DEF AllDelivered, AddDataItem
  <2>1. other < Reached \/ other = unit
    BY <1>3, ConstantTypes
  <2>2. QED
    BY <1>2, <2>1 DEF OrderInv, AllDelivered
<1>7. QED
  BY <1>4, <1>5, <1>6 DEF OrderInv

LEMMA HandlerKeepsOrder ==
  ASSUME TypeInv, OrderInv, Handler
  PROVE  OrderInv'
<1> USE DEF TypeInv, TypeOK
<1>1. CASE /\ handle_resolve \/ handle_connect \/ handle_read_status_line \/ handle_read_headers
           /\ UNCHANGED <<auxDataQueue, history>>
  BY <1>1, OrderLeftAlone DEF Handler, handle_resolve, handle_connect, handle_read_status_line,
                              handle_read_headers, OpDone
<1>2. CASE handle_write_request /\ UNCHANGED <<auxDataQueue, history>>
  <2>1. AsksForStart'
    <3> SUFFICES ASSUME failures = 0
                 PROVE  request' = <<>> /\ reply'.start = startEditUnit'
      BY <1>2 DEF AsksForStart, handle_write_request, OpDone
    <3>1. request = <<startEditUnit>>
      BY <1>2 DEF OrderInv, AsksForStart, handle_write_request, OpDone
    <3>2. Head(request) = startEditUnit /\ startEditUnit \in Int
      BY <3>1 DEF SharedType
    <3>3. QED
      BY <1>2, <3>2, AnswerIsRun DEF handle_write_request
  <2>2. UNCHANGED <<auxDataQueue, auxData, startEditUnit, added, delivered, failures, underflowed>>
    BY <1>2 DEF Handler, handle_write_request
  <2>3. QueueInOrder' /\ AllDelivered'
    BY <2>2 DEF OrderInv, QueueInOrder, AllDelivered, Waiting, Reached
  <2>4. QED
    BY <2>1, <2>3 DEF OrderInv
<1>3. CASE handle_read_content /\ UNCHANGED <<auxDataQueue, history>>
  <2>1. /\ UNCHANGED <<auxDataQueue, auxData, delivered, failures, underflowed, request>>
        /\ op = "content" /\ op' = "idle"
    BY <1>3 DEF Handler, handle_read_content, ContentEnds, OpDone
  <2>2. failures = 0 => Reached' = Reached
    BY <1>3, <2>1 DEF OrderInv, AsksForStart, handle_read_content, ContentEnds, EndOfReply, Reached,
                      OpType, Replies, SharedType
  <2>3. AsksForStart'
    BY <2>1 DEF OrderInv, AsksForStart
  <2>4. QueueInOrder' /\ AllDelivered'
    BY <2>1, <2>2 DEF OrderInv, QueueInOrder, AllDelivered, Waiting
  <2>5. QED
    BY <2>3, <2>4 DEF OrderInv
<1>4. CASE AddDataItem
  <2>1. CASE failures = 0
    BY <1>4, <2>1, AddDataItemKeepsOrder
  <2>2. CASE failures # 0
    BY <1>4, <2>2, FailureEndsOrder DEF AddDataItem
  <2>3. QED
    BY <2>1, <2>2
<1>5. CASE Refuse
  <2>1. CASE leftover
    BY <1>5, <2>1, OrderLeftAlone DEF Handler, Refuse, OpDone
  <2>2. CASE ~leftover
    <3>1. failures' # 0
      BY <1>5, <2>2 DEF Refuse, HistoryType
    <3>2. QED
      BY <3>1, FailureEndsOrder
  <2>3. QED
    BY <2>1, <2>2
<1>6. CASE Fail
  <2>1. failures' # 0
    BY <1>6 DEF Fail, HistoryType
  <2>2. QED
    BY <2>1, FailureEndsOrder
<1>7. CASE CutShort
  <2>1. failures' # 0
    BY <1>7 DEF CutShort, HistoryType
  <2>2. QED
    BY <2>1, FailureEndsOrder
<1>8. QED
  BY <1>1, <1>2, <1>3, <1>4, <1>5, <1>6, <1>7 DEF Handler

LEMMA FetchingKeepsOrder ==
  ASSUME TypeInv, FlagIsClear, OrderInv, RequestAuxDataItem \/ SetServerAndPort
  PROVE  OrderInv'
<1> USE DEF TypeInv, TypeOK
<1>1. UNCHANGED <<auxDataQueue, auxData>>
  BY DEF RequestAuxDataItem, SetServerAndPort
<1>2. CASE ComputeNextFetch
  <2>1. op = "idle" /\ UNCHANGED <<op, added, request, failures, delivered>>
    BY <1>2 DEF ComputeNextFetch, FlagIsClear
  <2>2. CASE frameSeen > startEditUnit
    <3>0. underflowed'
      BY <1>2, <2>2 DEF ComputeNextFetch
    <3>1. Reached' >= Reached /\ Reached \in Int /\ Reached' \in Int
      <4>1. startEditUnit' = frameSeen + AheadToRequest
        BY <1>2, <2>2 DEF ComputeNextFetch
      <4>2. startEditUnit \in Int /\ frameSeen \in Int /\ added \in Int /\ AheadToRequest \in Nat
        BY ConstantTypes DEF SharedType, FetchType, OpType
      <4>3. QED
        BY <2>1, <2>2, <4>1, <4>2 DEF Reached
    <3>2. Waiting \in Seq(Units) /\ Waiting' = Waiting
      BY <1>1, QueueLemma DEF ValidType, Waiting
    <3>3. \A i \in DOMAIN Waiting : Waiting[i] \in Int
      BY <3>2, EndsOfQueue
    <3>4. QueueInOrder'
      BY <2>1, <3>1, <3>2, <3>3 DEF OrderInv, QueueInOrder
    <3>5. AsksForStart'
      BY <2>1 DEF OrderInv, AsksForStart
    <3>6. AllDelivered'
      BY <3>0 DEF AllDelivered
    <3>7. QED
      BY <3>4, <3>5, <3>6 DEF OrderInv
  <2>3. CASE ~(frameSeen > startEditUnit)
    <3>1. startEditUnit' = startEditUnit /\ (~underflowed' => ~underflowed)
      BY <1>2, <2>3 DEF ComputeNextFetch
    <3>2. AsksForStart'
      BY <2>1 DEF OrderInv, AsksForStart
    <3>3. QueueInOrder' /\ AllDelivered'
      BY <1>1, <2>1, <3>1 DEF OrderInv, QueueInOrder, AllDelivered, Waiting, Reached
    <3>4. QED
      BY <3>2, <3>3 DEF OrderInv
  <2>4. QED
    BY <2>2, <2>3
<1>3. CASE ReadCurrentFrame \/ Look \/ LookWhileInProgress \/ WakeUp \/ DecideToFetch
           \/ LeavePause
  BY <1>1, <1>3, OrderLeftAlone DEF ReadCurrentFrame, Look, LookWhileInProgress, WakeUp,
                                    DecideToFetch, LeavePause
<1>4. CASE StartGET \/ SetServerAndPort
  <2>1. GET /\ ~getInProgress /\ UNCHANGED <<failures, delivered, underflowed>>
    BY <1>4 DEF StartGET, SetServerAndPort, FlagIsClear
  <2>2. QED
    BY <1>1, <2>1, GETKeepsOrder
<1>5. QED
  BY <1>2, <1>3, <1>4 DEF RequestAuxDataItem

LEMMA PacketsKeepOrder ==
  ASSUME TypeInv, OrderInv, Packets
  PROVE  OrderInv'
<1> USE DEF TypeInv, TypeOK
<1>1. UNCHANGED <<sharedVars, opVars, history>>
  BY DEF Packets
<1>2. AsksForStart' /\ AllDelivered' /\ Reached' = Reached
  BY <1>1 DEF OrderInv, AsksForStart, AllDelivered, Reached
<1>3. Waiting \in Seq(Units) /\ (Waiting' = Waiting \/ Dropped)
  BY PacketsDrop DEF Packets
<1>4. CASE Waiting' = Waiting
  BY <1>1, <1>2, <1>4 DEF OrderInv, QueueInOrder
<1>5. CASE Dropped
  <2>1. /\ Len(Waiting) \in Nat /\ DOMAIN Waiting = 1 .. Len(Waiting)
        /\ DOMAIN Waiting' = 1 .. Len(Waiting) - 1
        /\ \A i \in 1 .. Len(Waiting) - 1 : Waiting'[i] = Waiting[i + 1]
    BY <1>3, <1>5, EndsOfQueue DEF Dropped
  <2>2. QueueInOrder'
    <3> SUFFICES ASSUME failures = 0
                 PROVE  /\ \A i, j \in DOMAIN Waiting' : i < j => Waiting'[i] < Waiting'[j]
                        /\ \A i \in DOMAIN Waiting' : Waiting'[i] < Reached
      BY <1>1, <1>2 DEF QueueInOrder
    <3>1. /\ \A i, j \in DOMAIN Waiting : i < j => Waiting[i] < Waiting[j]
          /\ \A i \in DOMAIN Waiting : Waiting[i] < Reached
      BY DEF OrderInv, QueueInOrder
    <3>2. \A i \in DOMAIN Waiting' : i + 1 \in DOMAIN Waiting /\ Waiting'[i] = Waiting[i + 1]
      BY <2>1
    <3>3. \A i, j \in DOMAIN Waiting' : i < j => i + 1 < j + 1
      BY <2>1
    <3>4. QED
      BY <3>1, <3>2, <3>3
  <2>3. QED
    BY <1>2, <2>2 DEF OrderInv
<1>6. QED
  BY <1>2, <1>3, <1>4, <1>5 DEF OrderInv

LEMMA OrderIsKept == Spec => [](TypeInv /\ OrderInv)
<1>1. ASSUME TypeInv, FlagIsClear, OrderInv, [Next]_vars
      PROVE  OrderInv'
  <2>1. CASE Destroy \/ UNCHANGED vars
    BY <1>1, <2>1, OrderLeftAlone DEF Destroy, vars
  <2>2. QED
    BY <1>1, <2>1, HandlerKeepsOrder, FetchingKeepsOrder, PacketsKeepOrder DEF Next
<1>2. QED
  BY <1>1, InitOrderInv, TypesAreKept, FlagStaysClear, PTL DEF Spec

\* Without errors the queue is that of the timeline, whatever the show and the sizes
\* of requests: no unit twice, none out of order, none behind the next request.
THEOREM QueueIsInOrder == Spec => []UnitsInOrder
<1>1. TypeInv /\ OrderInv => UnitsInOrder
  <2> SUFFICES ASSUME TypeInv, OrderInv, failures = 0
               PROVE  /\ \A i, j \in DOMAIN Waiting : i < j => Waiting[i] < Waiting[j]
                      /\ op # "content" => \A i \in DOMAIN Waiting : Waiting[i] < startEditUnit
    BY DEF UnitsInOrder
  <2>1. op # "content" => Reached = startEditUnit
    BY DEF TypeInv, TypeOK, SharedType, RequestIsThere, Reached
  <2>2. QED
    BY <2>1 DEF OrderInv, QueueInOrder
<1>2. QED
  BY <1>1, OrderIsKept, PTL

\* Without errors and while the requests keep ahead, every unit of the show is queued
\* before a later one is asked for.
THEOREM NothingIsSkipped == Spec => []NoUnitSkipped
<1>1. TypeInv /\ OrderInv => NoUnitSkipped
  <2> SUFFICES ASSUME TypeInv, OrderInv, failures = 0, ~underflowed, op # "content",
                      NEW unit \in Units, unit < startEditUnit
               PROVE  unit \in delivered
    BY DEF NoUnitSkipped
  <2>1. Reached = startEditUnit
    BY DEF TypeInv, TypeOK, SharedType, RequestIsThere, Reached
  <2>2. QED
    BY <2>1 DEF OrderInv, AllDelivered
<1>2. QED
  BY <1>1, OrderIsKept, PTL

\* Without errors, a packet whose unit is there when its validation ends is valid:
\* the order of the queue makes the first later item proof that it is not.
THEOREM PacketsAreValid == Spec => ValidWhenThere
<1>1. ASSUME TypeInv, OrderInv, [Next]_vars, failures = 0,
             validating # "idle", validating' = "idle",
             NEW i \in DOMAIN Waiting, Waiting[i] = currentFrame
      PROVE  isValid'
  <2> USE DEF TypeInv, TypeOK
  <2>1. HandleFrame \/ Validate
    BY <1>1 DEF Next, SetServerAndPort, Handler, RequestAuxDataItem, Destroy, Packets, vars
  <2>2. ~ (auxData = <<>> /\ auxDataQueue = <<>>)
    BY DEF Waiting
  <2>3. ~ TakeItem
    BY <1>1, <2>2 DEF TakeItem
  <2>4. ~ TakeNextItem
    BY <1>1, <2>2 DEF TakeNextItem, ItemIsHeld
  <2>5. CASE TestItem
    <3>1. auxData # <<>> /\ auxData[1] \in Int /\ currentFrame \in Int
      BY <1>1, <2>5, TestItemDoes, HeldItem
    <3>2. Waiting \in Seq(Units) /\ Waiting[1] = auxData[1]
      <4>1. PICK item \in Units : auxData = <<item>> /\ auxData[1] = item
        BY <1>1, <3>1, HeldItem
      <4>2. auxDataQueue \in Seq(Units)
        BY <1>1 DEF ValidType
      <4>3. QED
        BY <4>1, <4>2, QueueLemma DEF Waiting
    <3>3. ~ (auxData[1] > currentFrame)
      <4>1. i \in 1 .. Len(Waiting) /\ Len(Waiting) \in Nat /\ DOMAIN Waiting = 1 .. Len(Waiting)
        BY <3>2, EndsOfQueue
      <4>2. i = 1 \/ Waiting[1] < Waiting[i]
        BY <1>1, <4>1 DEF OrderInv, QueueInOrder
      <4>3. QED
        BY <1>1, <3>1, <3>2, <4>2
    <3>4. auxData[1] = currentFrame
      BY <1>1, <2>5, <3>1, <3>3 DEF TestItem
    <3>5. QED
      BY <2>5, <3>4 DEF TestItem
  <2>6. ~ HandleFrame
    BY <1>1 DEF HandleFrame
  <2>7. QED
    BY <2>1, <2>3, <2>4, <2>5, <2>6 DEF Validate
<1>2. TypeInv /\ OrderInv /\ [Next]_vars =>
        [failures = 0 /\ validating # "idle" /\ validating' = "idle"
           /\ (\E i \in DOMAIN Waiting : Waiting[i] = currentFrame)
         => isValid']_vars
  BY <1>1
<1>3. QED
  BY <1>2, OrderIsKept, PTL DEF Spec, ValidWhenThere

=============================================================================
