-------------------------- MODULE DCSChannelProofs --------------------------
(***************************************************************************)
(* What the observers of a state may rely on, for any number of threads    *)
(* that set the state and of observers that come and go; and the same of a *)
(* DCS_Client, which is an observable state, whatever is sent, whenever    *)
(* the connection breaks, and however often the user adds and removes its  *)
(* observers: the client's handlers only go through SetState.              *)
(*                                                                         *)
(* Then what is on the wire: what is written of a message is read as it    *)
(* was, message by message and member by member.  The proof goes from the  *)
(* inside out: a number in its bytes, a member of a message, a message in  *)
(* its payload and with its header, messages one behind the other, and the *)
(* invariant that says where each byte of them is.                         *)
(***************************************************************************)
EXTENDS DCSChannel, FlattenTheorems, SequenceTheorems, TLAPS

-----------------------------------------------------------------------------
(* The observable state.  The mutex keeps the list as it is for as long as *)
(* it is gone through; and whoever assigned the state last still has to go *)
(* through it, or has told all.                                            *)

Calls == [op : {"idle", "assign", "lock", "notify", "observe"}, to : States,
          at : Nat, observer : Observers \cup {Nobody}]

ObsTypeOK ==
  /\ state \in States /\ observers \in Seq(Observers)
  /\ mutex \in Threads \cup {Nobody} /\ call \in [Threads -> Calls]
  /\ DOMAIN lastSeen = Observers

\* Who goes through the list holds the mutex, and calls the observer it is at.
ListIsHeld ==
  \A t \in Threads :
    /\ call[t].op \in {"notify", "observe"} => mutex = t /\ call[t].at > 0
    /\ call[t].op = "observe" =>
         call[t].at \in DOMAIN observers /\ call[t].observer = observers[call[t].at]

\* Thread t will yet call the observer at i.
WillCall(t, i) ==
  \/ call[t].op = "lock"
  \/ call[t].op \in {"notify", "observe"} /\ call[t].at <= i

\* An observer that was in the list at the last change has been told, or will be.
ToldOrToBeTold ==
  \A i \in DOMAIN observers :
    \/ lastSeen[observers[i]] \in {Unseen, state}
    \/ \E t \in Threads : WillCall(t, i)

ObsInv == ObsTypeOK /\ ListIsHeld /\ ToldOrToBeTold

USE DEF obsVars

-----------------------------------------------------------------------------
LEMMA InitObsInv == ObsInit => ObsInv
  BY ObservableAssumption
  DEF ObsInit, ObsInv, ObsTypeOK, ListIsHeld, ToldOrToBeTold, Idle, Calls

\* A call that has not come to the list says nothing about it.
LEMMA SetStateKeeps ==
  ASSUME ObsInv, NEW t \in Threads, NEW to \in States, SetState(t, to)
  PROVE  ObsInv'
  BY ObservableAssumption
  DEF ObsInv, ObsTypeOK, ListIsHeld, ToldOrToBeTold, WillCall, SetState, Idle, Calls

\* The thread that assigns has the whole list before it.
LEMMA AssignKeeps ==
  ASSUME ObsInv, NEW t \in Threads, Assign(t)
  PROVE  ObsInv'
<1>1. /\ call \in [Threads -> Calls] /\ call' \in [Threads -> Calls]
      /\ call'[t].op = "lock" /\ call[t].to \in States
      /\ \A u \in Threads \ {t} : call'[u] = call[u]
  BY DEF ObsInv, ObsTypeOK, Assign, Calls
<1>2. ObsTypeOK'
  BY <1>1 DEF ObsInv, ObsTypeOK, Assign
<1>3. ListIsHeld'
  BY <1>1 DEF ObsInv, ListIsHeld, Assign
<1>4. QED
  BY <1>1, <1>2, <1>3 DEF ObsInv, ToldOrToBeTold, WillCall

\* The list is locked and gone through from its start.
LEMMA LockKeeps ==
  ASSUME ObsInv, NEW t \in Threads, Lock(t)
  PROVE  ObsInv'
<1>1. /\ call \in [Threads -> Calls] /\ call' \in [Threads -> Calls]
      /\ call'[t].op = "notify" /\ call'[t].at = 1
      /\ \A u \in Threads \ {t} : call'[u] = call[u]
  BY DEF ObsInv, ObsTypeOK, Lock, Calls
<1>2. ObsTypeOK'
  BY <1>1 DEF ObsInv, ObsTypeOK, Lock
<1>3. ListIsHeld'
  BY <1>1, ObservableAssumption DEF ObsInv, ListIsHeld, Lock
<1>4. \A u \in Threads, i \in DOMAIN observers : WillCall(u, i) => WillCall(u, i)'
  BY <1>1 DEF ObsInv, ObsTypeOK, WillCall
<1>5. QED
  BY <1>2, <1>3, <1>4 DEF ObsInv, ToldOrToBeTold, Lock

LEMMA CallObserverKeeps ==
  ASSUME ObsInv, NEW t \in Threads, CallObserver(t)
  PROVE  ObsInv'
<1>1. /\ call[t].at \in DOMAIN observers /\ observers[call[t].at] \in Observers
      /\ call[t] \in Calls
  BY DEF ObsInv, ObsTypeOK, ListIsHeld, CallObserver, Calls
<1>2. /\ call \in [Threads -> Calls] /\ call' \in [Threads -> Calls]
      /\ call'[t].op = "observe" /\ call'[t].at = call[t].at
      /\ call'[t].observer = observers[call[t].at]
      /\ \A u \in Threads \ {t} : call'[u] = call[u]
  BY <1>1 DEF ObsInv, ObsTypeOK, CallObserver, Calls
<1>3. ObsTypeOK'
  BY <1>2 DEF ObsInv, ObsTypeOK, CallObserver
<1>4. ListIsHeld'
  BY <1>1, <1>2 DEF ObsInv, ListIsHeld, CallObserver
<1>5. \A u \in Threads, i \in DOMAIN observers : WillCall(u, i) => WillCall(u, i)'
  BY <1>2 DEF CallObserver, WillCall
<1>6. QED
  BY <1>3, <1>4, <1>5 DEF ObsInv, ToldOrToBeTold, CallObserver

\* The observer that has been called has seen the state of this moment.
LEMMA ObserveKeeps ==
  ASSUME ObsInv, NEW t \in Threads, Observe(t)
  PROVE  ObsInv'
<1>1. /\ call \in [Threads -> Calls] /\ call' \in [Threads -> Calls]
      /\ call'[t].op = "notify" /\ call'[t].at = call[t].at + 1
      /\ \A u \in Threads \ {t} : call'[u] = call[u]
  BY SMTT(30) DEF ObsInv, ObsTypeOK, Observe, Calls
<1>2. call[t].at \in DOMAIN observers /\ call[t].observer = observers[call[t].at]
      /\ call[t].at \in Nat
  BY <1>1 DEF ObsInv, ListIsHeld, Observe, Calls
<1>3. lastSeen'[observers[call[t].at]] = state
  BY <1>2 DEF ObsInv, ObsTypeOK, Observe
<1>4. ObsTypeOK'
  BY <1>1 DEF ObsInv, ObsTypeOK, Observe
<1>5. ListIsHeld'
  BY <1>1, <1>2 DEF ObsInv, ListIsHeld, Observe
<1>6. ASSUME NEW i \in DOMAIN observers, lastSeen'[observers[i]] \notin {Unseen, state}
      PROVE  \E u \in Threads : WillCall(u, i)'
  <2>1. i # call[t].at /\ lastSeen'[observers[i]] = lastSeen[observers[i]]
    BY <1>3, <1>6, <1>2 DEF ObsInv, ObsTypeOK, Observe
  <2>2. PICK u \in Threads : WillCall(u, i)
    BY <2>1, <1>6 DEF ObsInv, ToldOrToBeTold
  <2>3. WillCall(u, i)'
    BY <1>1, <1>2, <2>1, <2>2 DEF ObsInv, ObsTypeOK, Observe, WillCall
  <2>4. QED
    BY <2>3
<1>7. QED
  BY <1>4, <1>5, <1>6 DEF ObsInv, ToldOrToBeTold, Observe

\* Behind the last observer nobody is left to be called.
LEMMA UnlockKeeps ==
  ASSUME ObsInv, NEW t \in Threads, Unlock(t)
  PROVE  ObsInv'
<1>1. /\ call \in [Threads -> Calls] /\ call' \in [Threads -> Calls]
      /\ call'[t].op = "idle"
      /\ \A u \in Threads \ {t} : call'[u] = call[u]
  BY ObservableAssumption DEF ObsInv, ObsTypeOK, Unlock, Idle, Calls
<1>2. ObsTypeOK'
  BY <1>1 DEF ObsInv, ObsTypeOK, Unlock
<1>3. ListIsHeld'
  BY <1>1, ObservableAssumption DEF ObsInv, ListIsHeld, Unlock
<1>4. \A u \in Threads, i \in DOMAIN observers : WillCall(u, i) => WillCall(u, i)'
  BY <1>1 DEF ObsInv, ObsTypeOK, Calls, Unlock, WillCall
<1>5. QED
  BY <1>2, <1>3, <1>4 DEF ObsInv, ToldOrToBeTold, Unlock

\* While the mutex is free nobody is in the list, and all who will call will lock it.
LEMMA FreeMutex ==
  ASSUME ObsInv, mutex = Nobody, NEW t \in Threads
  PROVE  call[t].op \notin {"notify", "observe"}
  BY ObservableAssumption DEF ObsInv, ListIsHeld

LEMMA AddObserverKeeps ==
  ASSUME ObsInv, NEW t \in Threads, NEW o \in Observers, AddObserver(t, o)
  PROVE  ObsInv'
<1>1. /\ DOMAIN observers' = 1 .. Len(observers) + 1
      /\ observers'[Len(observers) + 1] = o
      /\ \A i \in DOMAIN observers : i \in DOMAIN observers' /\ observers'[i] = observers[i]
      /\ DOMAIN observers = 1 .. Len(observers)
  BY DEF ObsInv, ObsTypeOK, AddObserver
<1>2. ObsTypeOK' /\ ListIsHeld'
  BY FreeMutex DEF ObsInv, ObsTypeOK, ListIsHeld, AddObserver
<1>3. ASSUME NEW i \in DOMAIN observers', lastSeen'[observers'[i]] \notin {Unseen, state}
      PROVE  \E u \in Threads : WillCall(u, i)'
  <2>1. i \in DOMAIN observers /\ lastSeen[observers[i]] \notin {Unseen, state}
    BY <1>1, <1>3 DEF ObsInv, ObsTypeOK, AddObserver
  <2>2. PICK u \in Threads : WillCall(u, i)
    BY <2>1 DEF ObsInv, ToldOrToBeTold
  <2>3. QED
    BY <2>2 DEF WillCall, AddObserver
<1>4. QED
  BY <1>2, <1>3 DEF ObsInv, ToldOrToBeTold, AddObserver

\* What is left of a sequence was in it.
LEMMA RemoveAtKeeps ==
  ASSUME NEW S, NEW s \in Seq(S), NEW at \in DOMAIN s
  PROVE  /\ RemoveAt(s, at) \in Seq(S)
         /\ \A i \in DOMAIN RemoveAt(s, at) : \E j \in DOMAIN s : RemoveAt(s, at)[i] = s[j]
<1> DEFINE before == SubSeq(s, 1, at - 1)
           behind == SubSeq(s, at + 1, Len(s))
<1>1. at \in 1 .. Len(s) /\ Len(s) \in Nat /\ DOMAIN s = 1 .. Len(s)
  OBVIOUS
<1>2. /\ before \in Seq(S) /\ Len(before) = at - 1
      /\ \A i \in 1 .. at - 1 : before[i] = s[i]
  BY <1>1
<1>3. /\ behind \in Seq(S) /\ Len(behind) = Len(s) - at
      /\ \A i \in 1 .. Len(s) - at : behind[i] = s[at + i]
  BY <1>1
<1> HIDE DEF before, behind
<1>4. /\ before \o behind \in Seq(S) /\ Len(before \o behind) = Len(before) + Len(behind)
      /\ \A i \in 1 .. Len(before) + Len(behind) :
           (before \o behind)[i] = IF i <= Len(before) THEN before[i] ELSE behind[i - Len(before)]
  BY <1>2, <1>3, SMTT(30)
<1>5. RemoveAt(s, at) = before \o behind
  BY DEF RemoveAt, before, behind
<1>6. ASSUME NEW i \in DOMAIN RemoveAt(s, at)
      PROVE  \E j \in DOMAIN s : RemoveAt(s, at)[i] = s[j]
  <2>1. i \in 1 .. Len(before) + Len(behind)
    BY <1>4, <1>5, <1>6
  <2>2. CASE i <= Len(before)
    <3>1. RemoveAt(s, at)[i] = s[i] /\ i \in DOMAIN s
      BY <1>1, <1>2, <1>3, <1>4, <1>5, <2>1, <2>2
    <3>2. QED
      BY <3>1
  <2>3. CASE i > Len(before)
    <3> DEFINE k == i - (at - 1)
    <3>1. k \in 1 .. Len(s) - at /\ k = i - Len(before) /\ at + k \in DOMAIN s
      BY <1>1, <1>2, <1>3, <2>1, <2>3, SMTT(30)
    <3>2. RemoveAt(s, at)[i] = behind[i - Len(before)]
      BY <1>2, <1>3, <1>4, <1>5, <2>1, <2>3
    <3>3. RemoveAt(s, at)[i] = s[at + k]
      BY <1>3, <3>1, <3>2
    <3>4. QED
      BY <3>1, <3>3
  <2>4. QED
    BY <1>1, <1>2, <2>1, <2>2, <2>3
<1>7. QED
  BY <1>4, <1>5, <1>6

LEMMA RemoveObserverKeeps ==
  ASSUME ObsInv, NEW t \in Threads, NEW o \in Observers, RemoveObserver(t, o)
  PROVE  ObsInv'
<1>1. PICK at \in DOMAIN observers : observers' = RemoveAt(observers, at)
  BY DEF RemoveObserver
<1>2. /\ observers \in Seq(Observers) /\ observers' \in Seq(Observers)
      /\ \A i \in DOMAIN observers' : \E j \in DOMAIN observers : observers'[i] = observers[j]
  BY <1>1, RemoveAtKeeps DEF ObsInv, ObsTypeOK
<1>3. ObsTypeOK' /\ ListIsHeld'
  BY <1>2, FreeMutex DEF ObsInv, ObsTypeOK, ListIsHeld, RemoveObserver
<1>4. ASSUME NEW i \in DOMAIN observers', lastSeen'[observers'[i]] \notin {Unseen, state}
      PROVE  \E u \in Threads : WillCall(u, i)'
  <2>1. PICK j \in DOMAIN observers : observers'[i] = observers[j]
    BY <1>2
  <2>2. PICK u \in Threads : WillCall(u, j)
    BY <2>1, <1>4 DEF ObsInv, ToldOrToBeTold, RemoveObserver
  <2>3. call[u].op = "lock"
    BY <2>2, FreeMutex DEF WillCall, RemoveObserver
  <2>4. QED
    BY <2>3 DEF WillCall, RemoveObserver
<1>5. QED
  BY <1>3, <1>4 DEF ObsInv, ToldOrToBeTold, RemoveObserver

LEMMA ObsStepKeeps == ObsInv /\ [ObsNext]_obsVars => ObsInv'
<1>1. ASSUME ObsInv, UNCHANGED obsVars
      PROVE  ObsInv'
  BY <1>1 DEF ObsInv, ObsTypeOK, ListIsHeld, ToldOrToBeTold, WillCall
<1>2. ASSUME ObsInv, NEW t \in Threads, Notifies(t)
      PROVE  ObsInv'
  BY <1>2, AssignKeeps, LockKeeps, CallObserverKeeps, ObserveKeeps, UnlockKeeps DEF Notifies
<1>3. QED
  BY <1>1, <1>2, SetStateKeeps, AddObserverKeeps, RemoveObserverKeeps DEF ObsNext

-----------------------------------------------------------------------------
\* The list and the calls have their types, and the mutex its owner.
THEOREM ObsInvariant == ObsSpec => []ObsInv
  BY InitObsInv, ObsStepKeeps, PTL DEF ObsSpec

\* No observer is being called once RemoveObserver has returned.
THEOREM RemovedAreSilent == ObsSpec => []RemovedIsSilent
<1>1. ObsInv => RemovedIsSilent
  BY DEF ObsInv, ListIsHeld, RemovedIsSilent, ToSet
<1>2. QED
  BY <1>1, ObsInvariant, PTL

\* Every observer in the list at the last change of the state has been told of it when
\* no call is under way, however many threads set the state.
THEOREM AllChangesAreSeen == ObsSpec => []ChangesAreSeen
<1>1. ObsInv => ChangesAreSeen
  BY DEF ObsInv, ToldOrToBeTold, WillCall, ChangesAreSeen, ToSet
<1>2. QED
  BY <1>1, ObsInvariant, PTL

HIDE DEF obsVars

-----------------------------------------------------------------------------
(* The client as an observable state.                                      *)

LEMMA IoSetsState ==
  ASSUME NEW to \in {"Disconnected", "Connected"}, NEW next, SetsState(to, next)
  PROVE  ObsNext
  BY DCSChannelAssumption DEF SetsState, ObsNext

LEMMA IoCloses == DoClose => ObsNext
  BY IoSetsState DEF DoClose

\* What the io thread runs is a step of SetState, or leaves the state alone.
LEMMA ClientIoSteps == ClientIo => [ObsNext]_obsVars
<1>1. HandleConnect => ObsNext
  BY IoSetsState, IoCloses DEF HandleConnect
<1>2. Notify => ObsNext
  BY DCSChannelAssumption DEF Notify, ObsNext
<1>3. Returns => UNCHANGED obsVars
  BY DEF Returns
<1>4. HandleReadError => ObsNext
  BY IoCloses DEF HandleReadError
<1>5. RunPosted => [ObsNext]_obsVars
  BY IoCloses DEF RunPosted
<1>6. HandleWrite => [ObsNext]_obsVars
  BY IoCloses DEF HandleWrite
<1>7. WriteFaults => UNCHANGED obsVars
  BY DEF WriteFaults
<1>8. QED
  BY <1>1, <1>2, <1>3, <1>4, <1>5, <1>6, <1>7 DEF ClientIo

\* The user's thread adds and removes observers; nobody else touches the state.
LEMMA OtherSteps == ASSUME Next, ~ClientIo PROVE [ObsNext]_obsVars
<1>1. ObserverCall => ObsNext
  BY DCSChannelAssumption DEF ObserverCall, ObsNext
<1>2. Send \/ Close \/ Lose => UNCHANGED obsVars
  BY DEF Send, Close, Lose
<1>3. ConnectCompletes \/ WriteCompletes => UNCHANGED obsVars
  BY DEF ConnectCompletes, WriteCompletes
<1>4. Start \/ Session => UNCHANGED obsVars
  BY DEF Start, Session, ReadCompletes, HandleReadHeader, HandleReadBody
<1>5. QED
  BY <1>1, <1>2, <1>3, <1>4 DEF Next

LEMMA StepIsObservable == [Next]_vars => [ObsNext]_obsVars
<1>1. Next => [ObsNext]_obsVars
  BY ClientIoSteps, OtherSteps
<1>2. UNCHANGED vars => UNCHANGED obsVars
  BY DEF vars
<1>3. QED
  BY <1>1, <1>2

\* A client on its channel behaves as an observable state does.
THEOREM ChannelIsObservable == Spec => ObsSpec
<1>1. Init => ObsInit
  BY DEF Init
<1>2. QED
  BY <1>1, StepIsObservable, PTL DEF Spec, ObsSpec

\* The observers of a client are told of its last change and left alone once they are
\* removed, whatever happens to the connection.
THEOREM ChannelTellsObservers == Spec => [](RemovedIsSilent /\ ChangesAreSeen)
  BY ChannelIsObservable, RemovedAreSilent, AllChangesAreSeen, PTL

-----------------------------------------------------------------------------
(* Numbers, flags and texts as bytes.                                      *)

LEMMA BytesAre == 0 .. 127 \subseteq Bytes /\ Bytes \subseteq Nat
  BY ByteAssumption DEF Bytes

\* A length of three bytes is a number, and so is 0.
LEMMA LengthsAre == Lengths \subseteq Number /\ Number \subseteq Nat /\ 0 \in Lengths
<1>1. PICK m \in Nat : m = Byte * Byte * Byte
  BY ByteAssumption
<1>2. \A b, k \in Nat : b > 127 => k * b >= k /\ (k > 0 => k * b > 0)
  OBVIOUS
<1>3. m > 0
  <2>1. Byte * Byte > 0 /\ Byte * Byte \in Nat
    BY <1>2, ByteAssumption
  <2>2. QED
    BY <1>1, <1>2, <2>1, ByteAssumption
<1>4. m * Byte >= m /\ m * Byte \in Nat
  BY <1>2, ByteAssumption
<1>5. Number = 0 .. m * Byte - 1 /\ Lengths = 0 .. m - 1
  BY <1>1 DEF Number, Lengths
<1>6. QED
  BY <1>3, <1>4, <1>5

LEMMA Write32Is ==
  ASSUME NEW v \in Number
  PROVE  /\ Write32(v) \in Seq(Bytes) /\ Len(Write32(v)) = 4
         /\ v \in Lengths => Write32(v)[1] = 0
         /\ ((Write32(v)[1] * Byte + Write32(v)[2]) * Byte + Write32(v)[3]) * Byte + Write32(v)[4] = v
<1>1. Byte \in Nat \ {0} /\ Write32(v) = Digits(Byte, v)
  BY ByteAssumption DEF Write32, Digits
<1>2. v \in Lengths => v < Byte * Byte * Byte
  BY ByteAssumption DEF Lengths
<1>3. QED
  BY <1>1, <1>2, DigitsAre DEF Number, Bytes

\* Four bytes that a buffer has are found one by one.
LEMMA HasFour ==
  ASSUME NEW buf, NEW at \in Nat \ {0}, NEW c \in Seq(Bytes), Len(c) = 4, HasAt(buf, at, c)
  PROVE  /\ buf[at] = c[1] /\ buf[at + 1] = c[2] /\ buf[at + 2] = c[3] /\ buf[at + 3] = c[4]
<1>1. \A i \in 1 .. 4 : buf[at + i - 1] = c[i]
  BY DEF HasAt
<1>2. at + 1 - 1 = at /\ at + 2 - 1 = at + 1 /\ at + 3 - 1 = at + 2 /\ at + 4 - 1 = at + 3
  OBVIOUS
<1>3. 1 \in 1 .. 4 /\ 2 \in 1 .. 4 /\ 3 \in 1 .. 4 /\ 4 \in 1 .. 4
  OBVIOUS
<1>4. QED
  BY <1>1, <1>2, <1>3

LEMMA NumberIsRead ==
  ASSUME NEW buf, NEW at \in Nat \ {0}, NEW v \in Number, HasAt(buf, at, Write32(v))
  PROVE  Read32(buf, at) = v
BY Write32Is, HasFour DEF Read32

\* A length takes four bytes, even one that does not fit into three.
LEMMA LengthIsWritten ==
  ASSUME NEW v \in Number
  PROVE  WriteBER4(v) \in Seq(Bytes) /\ Len(WriteBER4(v)) = 4
<1>1. PICK c \in Seq(Bytes) : c = Write32(v) /\ Len(c) = 4
  BY Write32Is
<1>2. PICK x \in Bytes : x = Byte \div 2 + 3
  BY ByteAssumption DEF Bytes
<1>3. \A S : \A q \in Seq(S), y \in S : Len(q) = 4 =>
        LET d == [q EXCEPT ![1] = y]
        IN  d \in Seq(S) /\ Len(d) = 4
  OBVIOUS
<1>4. WriteBER4(v) = [c EXCEPT ![1] = x]
  BY <1>1, <1>2 DEF WriteBER4
<1>5. QED
  BY ONLY <1>1, <1>3, <1>4, c \in Seq(Bytes), x \in Bytes

\* The first byte of a length says how many follow; the others are the number's.
LEMMA BER4Is ==
  ASSUME NEW v \in Lengths
  PROVE  /\ WriteBER4(v) \in Seq(Bytes) /\ Len(WriteBER4(v)) = 4
         /\ \A buf, at : at \in Nat \ {0} /\ HasAt(buf, at, WriteBER4(v)) => ReadBER4(buf, at) = v
<1>1. v \in Number /\ v \in Nat
  BY LengthsAre
<1>2. PICK c \in Seq(Bytes) : c = Write32(v)
  BY <1>1, Write32Is
<1>3. PICK x \in Bytes : x = Byte \div 2 + 3
  BY ByteAssumption DEF Bytes
<1>4. PICK d : d = [c EXCEPT ![1] = x]
  OBVIOUS
<1>5. Len(c) = 4 /\ c[1] = 0 /\ ((c[1] * Byte + c[2]) * Byte + c[3]) * Byte + c[4] = v
  BY <1>1, <1>2, Write32Is
<1>6. d \in Seq(Bytes) /\ Len(d) = 4 /\ d[2] = c[2] /\ d[3] = c[3] /\ d[4] = c[4]
  <2>1. \A S : \A q \in Seq(S), y \in S : Len(q) = 4 =>
          LET r == [q EXCEPT ![1] = y]
          IN  r \in Seq(S) /\ Len(r) = 4 /\ r[2] = q[2] /\ r[3] = q[3] /\ r[4] = q[4]
    OBVIOUS
  <2>2. Len(c) = 4
    BY <1>5
  <2>3. QED
    BY ONLY <1>4, <2>1, <2>2, c \in Seq(Bytes), x \in Bytes
<1>7. WriteBER4(v) = d
  BY <1>2, <1>3, <1>4 DEF WriteBER4
<1>8. ASSUME NEW buf, NEW at \in Nat \ {0}, HasAt(buf, at, d)
      PROVE  ReadBER4(buf, at) = v
  <2>1. buf[at + 1] = c[2] /\ buf[at + 2] = c[3] /\ buf[at + 3] = c[4]
    BY <1>6, <1>8, HasFour, SMTT(30)
  <2>2. c[2] \in Nat /\ c[3] \in Nat /\ c[4] \in Nat
    <3>1. 2 \in 1 .. Len(c) /\ 3 \in 1 .. Len(c) /\ 4 \in 1 .. Len(c)
      BY <1>5
    <3>2. c[2] \in Bytes /\ c[3] \in Bytes /\ c[4] \in Bytes
      BY ONLY <3>1, c \in Seq(Bytes)
    <3>3. QED
      BY <3>2, BytesAre
  <2>3. (c[2] * Byte + c[3]) * Byte + c[4] = v
    <3>1. c[1] * Byte + c[2] = c[2]
      BY <1>5, <2>2, ByteAssumption
    <3>2. QED
      BY <1>5, <3>1
  <2>4. QED
    BY <2>1, <2>3 DEF ReadBER4
<1>9. QED
  BY <1>6, <1>7, <1>8

Longs == [hi : Number, lo : Number]

\* Of a long number the lower half is read.
LEMMA LongIs ==
  ASSUME NEW v \in Longs
  PROVE  /\ Write64(v) \in Seq(Bytes) /\ Len(Write64(v)) = 8
         /\ \A buf \in Seq(Bytes), at \in Nat \ {0} :
              HasAt(buf, at, Write64(v)) => Read64(buf, at) = [v EXCEPT !.hi = 0]
<1>1. v.hi \in Number /\ v.lo \in Number /\ [v EXCEPT !.hi = 0] = [hi |-> 0, lo |-> v.lo]
  BY DEF Longs
<1>2. PICK c \in Seq(Bytes) : c = Write32(v.hi) /\ Len(c) = 4
  BY <1>1, Write32Is
<1>3. PICK d \in Seq(Bytes) : d = Write32(v.lo) /\ Len(d) = 4
  BY <1>1, Write32Is
<1>4. Write64(v) = c \o d
  BY <1>2, <1>3 DEF Write64
<1>5. c \o d \in Seq(Bytes) /\ Len(c \o d) = Len(c) + Len(d)
  OBVIOUS
<1>6. Len(c) + Len(d) = 8
  BY <1>2, <1>3
<1>7. ASSUME NEW buf \in Seq(Bytes), NEW at \in Nat \ {0}, HasAt(buf, at, c \o d)
      PROVE  Read64(buf, at) = [v EXCEPT !.hi = 0]
  <2>1. HasAt(buf, at + Len(c), d)
    BY <1>7, HasParts
  <2>2. HasAt(buf, at + 4, Write32(v.lo)) /\ at + 4 \in Nat \ {0}
    BY <1>2, <1>3, <2>1
  <2>3. Read32(buf, at + 4) = v.lo
    BY <1>1, <2>2, NumberIsRead
  <2>4. QED
    BY <1>1, <2>3 DEF Read64
<1>8. QED
  BY <1>4, <1>5, <1>6, <1>7

LEMMA TextsAre ==
  ASSUME NEW t \in Texts
  PROVE  /\ t \in Seq(Bytes) /\ Len(t) \in Lengths /\ Len(t) \in Nat
         /\ \A i \in 1 .. Len(t) : t[i] # 0
<1>1. t \in Seq(1 .. Byte - 1) /\ Len(t) \in Lengths
  BY DEF Texts
<1>2. PICK S : S = 1 .. Byte - 1
  OBVIOUS
<1>3. S \subseteq Bytes /\ 0 \notin S
  BY <1>2, ByteAssumption DEF Bytes
<1>4. \A Q, R : Q \subseteq R => \A q \in Seq(Q) : q \in Seq(R) /\ \A i \in 1 .. Len(q) : q[i] \in Q
  OBVIOUS
<1>5. t \in Seq(Bytes) /\ \A i \in 1 .. Len(t) : t[i] \in S
  BY <1>1, <1>2, <1>3, <1>4, Zenon
<1>6. QED
  BY <1>1, <1>3, <1>5, LengthsAre

\* A text without a 0 is read as it was written.
LEMMA TextIsRead ==
  ASSUME NEW buf \in Seq(Bytes), NEW at \in Nat \ {0}, NEW t \in Texts, HasAt(buf, at, t),
         NEW n, n = Len(t)
  PROVE  ReadText(buf, at, n) = t
<1>1. t \in Seq(Bytes) /\ Len(t) \in Nat /\ \A i \in 1 .. Len(t) : t[i] # 0
  BY TextsAre
<1>2. SubSeq(buf, at, at + n - 1) = t
  <2>1. PICK last : last = at + Len(t) - 1
    OBVIOUS
  <2>2. SubSeq(buf, at, last) = t
    BY <1>1, <2>1, HasSub
  <2>3. QED
    BY <2>1, <2>2
<1>3. {i \in DOMAIN t : t[i] = 0} = {}
  BY <1>1
<1>4. QED
  BY <1>2, <1>3 DEF ReadText

KLVs == [key : Bytes, text : Texts]

LEMMA KLVIs ==
  ASSUME NEW v \in KLVs
  PROVE  /\ KLVWrite(v) \in Seq(Bytes) /\ Len(KLVWrite(v)) = KLVSize(v) /\ KLVSize(v) \in Nat
         /\ \A buf \in Seq(Bytes), at \in Nat \ {0} :
              HasAt(buf, at, KLVWrite(v)) => KLVRead(buf, at) = [value |-> v, at |-> at + KLVSize(v)]
<1>1. v.key \in Bytes /\ v.text \in Texts /\ v = [key |-> v.key, text |-> v.text]
  BY DEF KLVs
<1>2. PICK t \in Seq(Bytes) : t = v.text /\ t \in Texts /\ Len(t) \in Lengths /\ Len(t) \in Nat
  BY <1>1, TextsAre
<1>3. PICK c \in Seq(Bytes) : c = <<v.key>> /\ Len(c) = 1 /\ c[1] = v.key
  <2>1. \A x \in Bytes : <<x>> \in Seq(Bytes) /\ Len(<<x>>) = 1 /\ <<x>>[1] = x
    OBVIOUS
  <2>2. QED
    BY <1>1, <2>1
<1>4. PICK d \in Seq(Bytes) : d = WriteBER4(Len(t)) /\ Len(d) = 4
  BY <1>2, BER4Is
<1>5. KLVWrite(v) = c \o d \o t
  BY <1>2, <1>3, <1>4 DEF KLVWrite
<1>6. /\ c \o d \o t \in Seq(Bytes) /\ Len(c \o d \o t) = Len(c) + Len(d) + Len(t)
      /\ \A buf \in Seq(Bytes), at \in Nat \ {0} : HasAt(buf, at, c \o d \o t) =>
           /\ HasAt(buf, at, c) /\ HasAt(buf, at + Len(c), d)
           /\ HasAt(buf, at + Len(c) + Len(d), t)
  BY ONLY ThreeParts, c \in Seq(Bytes), d \in Seq(Bytes), t \in Seq(Bytes)
<1>7. Len(c) + Len(d) + Len(t) = KLVSize(v) /\ KLVSize(v) \in Nat
  BY <1>2, <1>3, <1>4 DEF KLVSize
<1>8. ASSUME NEW buf \in Seq(Bytes), NEW at \in Nat \ {0}, HasAt(buf, at, c \o d \o t)
      PROVE  KLVRead(buf, at) = [value |-> v, at |-> at + KLVSize(v)]
  <2>1. HasAt(buf, at, c) /\ HasAt(buf, at + Len(c), d) /\ HasAt(buf, at + Len(c) + Len(d), t)
    BY <1>6, <1>8
  <2>2. at + Len(c) = at + 1 /\ at + Len(c) + Len(d) = at + 5
    BY <1>3, <1>4
  <2>3. buf[at] = v.key
    <3>1. \A i \in 1 .. 1 : buf[at + i - 1] = c[i]
      BY <1>3, <2>1 DEF HasAt
    <3>2. QED
      BY <1>3, <3>1
  <2>4. ReadBER4(buf, at + 1) = Len(t)
    <3>1. at + 1 \in Nat \ {0} /\ HasAt(buf, at + 1, WriteBER4(Len(t)))
      BY <1>4, <2>1, <2>2
    <3>2. QED
      BY <1>2, <3>1, BER4Is
  <2>5. ReadText(buf, at + 5, Len(t)) = t
    <3>1. at + 5 \in Nat \ {0} /\ HasAt(buf, at + 5, t)
      BY <2>1, <2>2
    <3>2. QED
      BY <1>2, <3>1, TextIsRead
  <2>6. at + 5 + Len(t) = at + KLVSize(v)
    <3>1. KLVSize(v) = 5 + Len(t) /\ Len(t) \in Nat
      BY <1>2 DEF KLVSize
    <3>2. QED
      BY ONLY <3>1, at \in Nat \ {0}
  <2>7. QED
    BY <1>1, <1>2, <2>3, <2>4, <2>5, <2>6 DEF KLVRead
<1>9. QED
  BY <1>5, <1>6, <1>7, <1>8

LEMMA SizesAre ==
  ASSUME NEW v
  PROVE  /\ MemberSize("uint32", v) = 4 /\ MemberSize("BER4", v) = 4
         /\ MemberSize("int64", v) = 8 /\ MemberSize("uint64", v) = 8
         /\ MemberSize("bool", v) = 1
         /\ MemberSize("rest", v) = Len(v) /\ MemberSize("text", v) = Len(v)
         /\ MemberSize("counted", v) = 4 + Len(v) /\ MemberSize("KLV", v) = KLVSize(v)
         /\ MemberSize("items", v) = 4 * Len(v) /\ MemberSize("extensions", v) = Len(v)
BY DEF MemberSize

LEMMA WritesAre ==
  ASSUME NEW v, NEW body
  PROVE  /\ WriteMember("uint32", v, body) = Write32(v)
         /\ WriteMember("BER4", v, body) = WriteBER4(v)
         /\ WriteMember("int64", v, body) = Write64(v)
         /\ WriteMember("uint64", v, body) = Write64(v)
         /\ WriteMember("bool", v, body) = WriteBool(v)
         /\ WriteMember("rest", v, body) = v
         /\ WriteMember("text", v, body) = v
         /\ WriteMember("counted", v, body) = WriteBER4(Len(v)) \o v
         /\ WriteMember("KLV", v, body) = KLVWrite(v)
         /\ WriteMember("items", v, body)
              = FlattenSeq([i \in 1 .. body.numberOfItems |-> Write32(v[i])])
         /\ WriteMember("extensions", v, body)
              = FlattenSeq([i \in 1 .. body.timelineExtensionCount |-> KLVWrite(v[i])])
BY DEF WriteMember

LEMMA ReadsAre ==
  ASSUME NEW buf, NEW at, NEW n, NEW body, NEW held
  PROVE  /\ ReadMember("uint32", buf, at, n, body, held) = Read(Read32(buf, at), at + 4)
         /\ ReadMember("BER4", buf, at, n, body, held) = Read(ReadBER4(buf, at), at + 4)
         /\ ReadMember("int64", buf, at, n, body, held) = Read(Read64(buf, at), at + 8)
         /\ ReadMember("uint64", buf, at, n, body, held) = Read(Read64(buf, at), at + 8)
         /\ ReadMember("bool", buf, at, n, body, held) = Read(ReadBool(buf, at, held), at + 1)
         /\ ReadMember("rest", buf, at, n, body, held)
              = Read(ReadText(buf, at, n - (at - 1)), n + 1)
         /\ ReadMember("text", buf, at, n, body, held)
              = Read(ReadText(buf, at, body.logEventTextLength), at + body.logEventTextLength)
         /\ ReadMember("counted", buf, at, n, body, held)
              = Read(ReadText(buf, at + 4, ReadBER4(buf, at)), at + 4 + ReadBER4(buf, at))
         /\ ReadMember("KLV", buf, at, n, body, held) = KLVRead(buf, at)
         /\ ReadMember("items", buf, at, n, body, held) = ReadItems(buf, at, body.numberOfItems)
         /\ ReadMember("extensions", buf, at, n, body, held)
              = ReadKLVs(buf, at, body.timelineExtensionCount)
BY DEF ReadMember

LEMMA ManyAre ==
  \A S : \A m \in Nat : \A f : f = [i \in 1 .. m |-> f[i]] /\ (\A i \in 1 .. m : f[i] \in S) =>
    f \in Seq(S) /\ Len(f) = m
OBVIOUS

LEMMA ItemsAre ==
  ASSUME NEW v \in Seq(Number), NEW n, n = Len(v), NEW w,
         w = FlattenSeq([i \in 1 .. n |-> Write32(v[i])])
  PROVE  /\ w \in Seq(Bytes) /\ Len(w) = 4 * n /\ n \in Nat
         /\ \A buf \in Seq(Bytes), at \in Nat \ {0} :
              HasAt(buf, at, w) => ReadItems(buf, at, n) = [value |-> v, at |-> at + 4 * n]
<1>1. n \in Nat /\ (\A i \in 1 .. n : v[i] \in Number) /\ v = [i \in 1 .. n |-> v[i]]
  OBVIOUS
<1>2. PICK q : q = [i \in 1 .. n |-> Write32(v[i])]
  OBVIOUS
<1>3. \A i \in 1 .. n : q[i] = Write32(v[i]) /\ q[i] \in Seq(Bytes) /\ Len(q[i]) = 4
  BY <1>1, <1>2, Write32Is
<1>4. q \in Seq(Seq(Bytes)) /\ Len(q) = n
  <2>1. q = [i \in 1 .. n |-> q[i]]
    BY <1>2
  <2>2. QED
    BY <1>1, <1>3, <2>1, ManyAre, Zenon
<1>5. PICK ends : ends = [k \in 0 .. n |-> 4 * k]
  OBVIOUS
<1>6. ends[0] = 0 /\ \A k \in Nat : k < Len(q) => ends[k + 1] = ends[k] + Len(q[k + 1])
  <2>1. ends[0] = 0
    BY <1>1, <1>5
  <2>2. ASSUME NEW k \in Nat, k < n
        PROVE  ends[k + 1] = ends[k] + Len(q[k + 1])
    <3>1. k + 1 \in 1 .. n /\ k \in 0 .. n /\ k + 1 \in 0 .. n
      BY <1>1, <2>2
    <3>2. ends[k] = 4 * k /\ ends[k + 1] = 4 * (k + 1) /\ Len(q[k + 1]) = 4
      BY <1>3, <1>5, <3>1
    <3>3. QED
      BY <3>2
  <2>3. QED
    BY <1>4, <2>1, <2>2
<1>7. w \in Seq(Bytes)
  BY <1>2, <1>4, FlattenType
<1>8. Len(w) = ends[n] /\ \A i \in 1 .. n : HasAt(w, ends[i - 1] + 1, q[i])
  BY <1>2, <1>4, <1>6, FlattenHas
<1>9. Len(w) = 4 * n
  <2>1. n \in 0 .. n
    BY <1>1
  <2>2. ends[n] = 4 * n
    BY <1>5, <2>1
  <2>3. QED
    BY <1>8, <2>2
<1>10. ASSUME NEW buf \in Seq(Bytes), NEW at \in Nat \ {0}, HasAt(buf, at, w)
       PROVE  ReadItems(buf, at, n) = [value |-> v, at |-> at + 4 * n]
  <2>1. ASSUME NEW i \in 1 .. n
        PROVE  Read32(buf, at + 4 * (i - 1)) = v[i]
    <3>1. PICK j \in Nat \ {0} : j = 4 * (i - 1) + 1
      OBVIOUS
    <3>2. ends[i - 1] + 1 = j
      <4>1. i - 1 \in 0 .. n
        BY <1>1
      <4>2. QED
        BY <1>5, <3>1, <4>1
    <3>3. q[i] \in Seq(Bytes) /\ HasAt(w, j, q[i])
      BY <1>3, <1>8, <3>2
    <3>4. HasAt(buf, at + j - 1, q[i])
      BY <1>7, <1>10, <3>3, HasWithin
    <3>5. PICK p \in Nat \ {0} : p = at + 4 * (i - 1) /\ p = at + j - 1
      BY <3>1
    <3>6. HasAt(buf, p, Write32(v[i])) /\ v[i] \in Number
      BY <1>1, <1>3, <3>4, <3>5
    <3>7. QED
      BY <3>5, <3>6, NumberIsRead
  <2>2. [i \in 1 .. n |-> Read32(buf, at + 4 * (i - 1))] = v
    BY <1>1, <2>1
  <2>3. QED
    BY <2>2 DEF ReadItems
<1>11. QED
  BY <1>1, <1>7, <1>9, <1>10

\* Without extensions nothing is written and nothing read.
LEMMA NoExtensions ==
  /\ \A v, body : body.timelineExtensionCount = 0 => WriteMember("extensions", v, body) = <<>>
  /\ \A buf, at : ReadKLVs(buf, at, 0) = [value |-> <<>>, at |-> at]
<1>1. ASSUME NEW v, NEW body, body.timelineExtensionCount = 0
      PROVE  WriteMember("extensions", v, body) = <<>>
  <2>1. PICK q : q = [i \in 1 .. 0 |-> KLVWrite(v[i])]
    OBVIOUS
  <2>2. q \in Seq({}) /\ Len(q) = 0
    BY <2>1
  <2>3. \A S : \A s \in Seq(S) : Len(s) = 0 => s = <<>>
    OBVIOUS
  <2>4. q = <<>>
    BY <2>2, <2>3, Zenon
  <2>5. WriteMember("extensions", v, body)
          = FlattenSeq([i \in 1 .. body.timelineExtensionCount |-> KLVWrite(v[i])])
    BY WritesAre
  <2>6. WriteMember("extensions", v, body) = FlattenSeq(q)
    BY <1>1, <2>1, <2>5, Zenon
  <2>7. QED
    BY <2>4, <2>6, FlattenNone
<1>2. ASSUME NEW buf, NEW at
      PROVE  ReadKLVs(buf, at, 0) = [value |-> <<>>, at |-> at]
  <2> DEFINE none == [value |-> <<>>, at |-> at]
             Next1(x) == LET klv == KLVRead(buf, x.at)
                         IN  [value |-> Append(x.value, klv.value), at |-> klv.at]
             r == CHOOSE f : f = [i \in 0 .. 0 |-> IF i = 0 THEN none ELSE Next1(f[i - 1])]
             first == [i \in 0 .. 0 |-> none]
  <2> HIDE DEF none, Next1
  <2>1. first = [i \in 0 .. 0 |-> IF i = 0 THEN none ELSE Next1(first[i - 1])]
    OBVIOUS
  <2>2. r = [i \in 0 .. 0 |-> IF i = 0 THEN none ELSE Next1(r[i - 1])]
    BY <2>1
  <2>3. r[0] = none
    BY <2>2
  <2>4. ReadKLVs(buf, at, 0) = r[0]
    BY DEF ReadKLVs, none, Next1
  <2>5. QED
    BY <2>3, <2>4 DEF none
<1>3. QED
  BY <1>1, <1>2

-----------------------------------------------------------------------------
(* A member takes the bytes that were counted for it, and is read as it    *)
(* was, apart from the upper half of a long one and a flag that is not     *)
(* set.                                                                    *)

Types == {"uint32", "BER4", "int64", "uint64", "bool", "rest", "text", "counted", "KLV",
          "items", "extensions"}

IsWritten(type, v, body) ==
  /\ WriteMember(type, v, body) \in Seq(Bytes)
  /\ MemberSize(type, v) \in Nat /\ Len(WriteMember(type, v, body)) = MemberSize(type, v)

ReadsBack(type, got, v) ==
  \/ got = v
  \/ type \in {"int64", "uint64"} /\ got = [v EXCEPT !.hi = 0]
  \/ type = "bool" /\ ~v

IsReadBack(field, type, at, v) ==
  field.at = at + MemberSize(type, v) /\ ReadsBack(type, field.value, v)

\* The counts that were read are those that were written.
CountsAgree(type, got, body) ==
  /\ type = "items" => got.numberOfItems = body.numberOfItems
  /\ type = "text" => got.logEventTextLength = body.logEventTextLength
  /\ type = "extensions" => got.timelineExtensionCount = body.timelineExtensionCount

LEMMA CountedIs ==
  ASSUME NEW v \in Texts
  PROVE  /\ WriteBER4(Len(v)) \o v \in Seq(Bytes) /\ Len(WriteBER4(Len(v)) \o v) = 4 + Len(v)
         /\ Len(v) \in Nat
         /\ \A buf \in Seq(Bytes), at \in Nat \ {0} : HasAt(buf, at, WriteBER4(Len(v)) \o v) =>
              /\ ReadBER4(buf, at) = Len(v) /\ ReadText(buf, at + 4, Len(v)) = v
<1>1. v \in Seq(Bytes) /\ Len(v) \in Lengths /\ Len(v) \in Nat
  BY TextsAre
<1>2. PICK c \in Seq(Bytes) : c = WriteBER4(Len(v)) /\ Len(c) = 4
  BY <1>1, BER4Is
<1>3. c \o v \in Seq(Bytes) /\ Len(c \o v) = Len(c) + Len(v)
  BY ONLY <1>1, c \in Seq(Bytes)
<1>4. ASSUME NEW buf \in Seq(Bytes), NEW at \in Nat \ {0}, HasAt(buf, at, c \o v)
      PROVE  ReadBER4(buf, at) = Len(v) /\ ReadText(buf, at + 4, Len(v)) = v
  <2>1. HasAt(buf, at, c) /\ HasAt(buf, at + Len(c), v)
    BY <1>1, <1>4, HasParts
  <2>2. ReadBER4(buf, at) = Len(v)
    BY <1>1, <1>2, <2>1, BER4Is
  <2>3. at + 4 \in Nat \ {0} /\ HasAt(buf, at + 4, v)
    BY <1>2, <2>1
  <2>4. QED
    BY <2>2, <2>3, TextIsRead
<1>5. QED
  BY <1>1, <1>2, <1>3, <1>4

LEMMA WrittenAs ==
  ASSUME NEW type, NEW v, NEW body, NEW w, NEW n, WriteMember(type, v, body) = w,
         MemberSize(type, v) = n, w \in Seq(Bytes), Len(w) = n, n \in Nat
  PROVE  IsWritten(type, v, body)
BY DEF IsWritten

LEMMA MemberIsWritten ==
  ASSUME NEW type \in Types, NEW v, NEW body, Fits(type, v, body), IsCounted(type, v, body)
  PROVE  IsWritten(type, v, body)
<1>1. CASE type = "uint32"
  <2>1. v \in Number
    BY <1>1 DEF Fits
  <2>2. WriteMember(type, v, body) = Write32(v) /\ MemberSize(type, v) = 4
    BY <1>1, WritesAre, SizesAre
  <2>3. Write32(v) \in Seq(Bytes) /\ Len(Write32(v)) = 4 /\ 4 \in Nat
    BY <2>1, Write32Is
  <2>4. QED
    BY <2>2, <2>3, WrittenAs
<1>2. CASE type = "BER4"
  <2>1. v \in Number
    BY <1>2 DEF Fits
  <2>2. WriteMember(type, v, body) = WriteBER4(v) /\ MemberSize(type, v) = 4
    BY <1>2, WritesAre, SizesAre
  <2>3. WriteBER4(v) \in Seq(Bytes) /\ Len(WriteBER4(v)) = 4 /\ 4 \in Nat
    BY <2>1, LengthIsWritten
  <2>4. QED
    BY <2>2, <2>3, WrittenAs
<1>3. CASE type \in {"int64", "uint64"}
  <2>1. v \in Longs
    BY <1>3 DEF Fits, Longs
  <2>2. WriteMember(type, v, body) = Write64(v) /\ MemberSize(type, v) = 8
    BY <1>3, WritesAre, SizesAre
  <2>3. Write64(v) \in Seq(Bytes) /\ Len(Write64(v)) = 8 /\ 8 \in Nat
    BY <2>1, LongIs
  <2>4. QED
    BY <2>2, <2>3, WrittenAs
<1>4. CASE type = "bool"
  <2>1. PICK x \in Bytes : x = IF v THEN 1 ELSE 0
    BY BytesAre
  <2>2. WriteBool(v) = <<x>>
    BY <2>1 DEF WriteBool
  <2>3. <<x>> \in Seq(Bytes) /\ Len(<<x>>) = 1 /\ 1 \in Nat
    OBVIOUS
  <2>4. WriteMember(type, v, body) = <<x>> /\ MemberSize(type, v) = 1
    BY <1>4, <2>2, WritesAre, SizesAre
  <2>5. QED
    BY <2>3, <2>4, WrittenAs
<1>5. CASE type \in {"rest", "text"}
  <2>1. v \in Texts
    BY <1>5 DEF Fits
  <2>2. WriteMember(type, v, body) = v /\ MemberSize(type, v) = Len(v)
    BY <1>5, WritesAre, SizesAre
  <2>3. v \in Seq(Bytes) /\ Len(v) = Len(v) /\ Len(v) \in Nat
    BY <2>1, TextsAre
  <2>4. QED
    BY <2>2, <2>3, WrittenAs
<1>6. CASE type = "counted"
  <2>1. v \in Texts
    BY <1>6 DEF Fits
  <2>2. WriteMember(type, v, body) = WriteBER4(Len(v)) \o v /\ MemberSize(type, v) = 4 + Len(v)
    BY <1>6, WritesAre, SizesAre
  <2>3. WriteBER4(Len(v)) \o v \in Seq(Bytes) /\ Len(WriteBER4(Len(v)) \o v) = 4 + Len(v) /\ 4 + Len(v) \in Nat
    BY <2>1, CountedIs
  <2>4. QED
    BY <2>2, <2>3, WrittenAs
<1>7. CASE type = "KLV"
  <2>1. v \in KLVs
    BY <1>7 DEF Fits, KLVs
  <2>2. WriteMember(type, v, body) = KLVWrite(v) /\ MemberSize(type, v) = KLVSize(v)
    BY <1>7, WritesAre, SizesAre
  <2>3. KLVWrite(v) \in Seq(Bytes) /\ Len(KLVWrite(v)) = KLVSize(v) /\ KLVSize(v) \in Nat
    BY <2>1, KLVIs
  <2>4. QED
    BY <2>2, <2>3, WrittenAs
<1>8. CASE type = "items"
  <2>1. v \in Seq(Number) /\ Len(v) = body.numberOfItems
    BY <1>8 DEF Fits, IsCounted
  <2>2. PICK w : w = WriteMember(type, v, body)
    OBVIOUS
  <2>3. PICK n : n = body.numberOfItems
    OBVIOUS
  <2>4. w = FlattenSeq([i \in 1 .. n |-> Write32(v[i])])
    BY <1>8, <2>2, <2>3, WritesAre
  <2>5. w \in Seq(Bytes) /\ Len(w) = 4 * n /\ n \in Nat
    BY <2>1, <2>3, <2>4, ItemsAre
  <2>6. MemberSize(type, v) = 4 * n
    BY <1>8, <2>1, <2>3, SizesAre
  <2>7. 4 * n \in Nat
    BY <2>5
  <2>8. QED
    BY <2>2, <2>5, <2>6, <2>7, WrittenAs
<1>9. CASE type = "extensions"
  <2>1. v = <<>> /\ body.timelineExtensionCount = 0
    BY <1>9 DEF Fits, IsCounted
  <2>2. <<>> \in Seq(Bytes) /\ Len(<<>>) = 0 /\ 0 \in Nat
    OBVIOUS
  <2>3. MemberSize(type, v) = Len(v)
    BY <1>9, SizesAre
  <2>4. WriteMember(type, v, body) = <<>> /\ MemberSize(type, v) = 0
    BY <1>9, <2>1, <2>2, <2>3, NoExtensions
  <2>5. QED
    BY <2>2, <2>4, WrittenAs
<1>10. QED
  BY <1>1, <1>2, <1>3, <1>4, <1>5, <1>6, <1>7, <1>8, <1>9 DEF Types

LEMMA FieldOf == \A x, y : Read(x, y).value = x /\ Read(x, y).at = y
  BY DEF Read

\* A flag: 1 sets it, and 0 leaves what was there.
LEMMA FlagIsRead ==
  ASSUME NEW v \in BOOLEAN, NEW buf, NEW at \in Nat \ {0}, HasAt(buf, at, WriteBool(v)), NEW held
  PROVE  ReadBool(buf, at, held) = v \/ ~v
<1>1. SUFFICES ASSUME v PROVE ReadBool(buf, at, held) = TRUE
  OBVIOUS
<1>2. WriteBool(v) = <<1>>
  BY <1>1 DEF WriteBool
<1>3. Len(<<1>>) = 1 /\ <<1>>[1] = 1
  OBVIOUS
<1>4. \A i \in 1 .. 1 : buf[at + i - 1] = <<1>>[i]
  BY <1>2, <1>3 DEF HasAt
<1>5. buf[at] = 1
  BY <1>3, <1>4
<1>6. QED
  BY <1>5 DEF ReadBool

LEMMA MemberIsRead ==
  ASSUME NEW type \in Types, NEW v, NEW body, Fits(type, v, body),
         IsCounted(type, v, body), IsMeasured(type, v, body),
         NEW buf \in Seq(Bytes), NEW at \in Nat \ {0}, HasAt(buf, at, WriteMember(type, v, body)),
         NEW got, CountsAgree(type, got, body), NEW held,
         type = "rest" => Len(buf) = at + MemberSize(type, v) - 1
  PROVE  IsReadBack(ReadMember(type, buf, at, Len(buf), got, held), type, at, v)
<1> DEFINE field == ReadMember(type, buf, at, Len(buf), got, held)
<1>1. CASE type = "uint32"
  <2>1. v \in Number /\ HasAt(buf, at, Write32(v)) /\ MemberSize(type, v) = 4
    BY <1>1, WritesAre, SizesAre DEF Fits
  <2>2. Read32(buf, at) = v
    BY <2>1, NumberIsRead
  <2>3. field = Read(v, at + 4)
    BY <1>1, <2>2, ReadsAre
  <2>4. QED
    BY <2>1, <2>3, FieldOf DEF IsReadBack, ReadsBack
<1>2. CASE type = "BER4"
  <2>1. v \in Lengths /\ HasAt(buf, at, WriteBER4(v)) /\ MemberSize(type, v) = 4
    BY <1>2, WritesAre, SizesAre DEF IsMeasured
  <2>2. ReadBER4(buf, at) = v
    BY <2>1, BER4Is
  <2>3. field = Read(v, at + 4)
    BY <1>2, <2>2, ReadsAre
  <2>4. QED
    BY <2>1, <2>3, FieldOf DEF IsReadBack, ReadsBack
<1>3. CASE type \in {"int64", "uint64"}
  <2>1. v \in Longs
    BY <1>3 DEF Fits, Longs
  <2>2. WriteMember(type, v, body) = Write64(v) /\ MemberSize(type, v) = 8
    BY <1>3, WritesAre, SizesAre
  <2>3. HasAt(buf, at, Write64(v))
    BY <2>2
  <2>4. Read64(buf, at) = [v EXCEPT !.hi = 0]
    BY <2>1, <2>3, LongIs
  <2>5. field = Read(Read64(buf, at), at + 8)
    BY <1>3, ReadsAre
  <2>6. field.value = [v EXCEPT !.hi = 0] /\ field.at = at + 8
    BY <2>4, <2>5, FieldOf
  <2>7. QED
    BY <1>3, <2>2, <2>6 DEF IsReadBack, ReadsBack
<1>4. CASE type = "bool"
  <2>1. v \in BOOLEAN /\ HasAt(buf, at, WriteBool(v))
    BY <1>4, WritesAre DEF Fits
  <2>2. ReadBool(buf, at, held) = v \/ ~v
    BY <2>1, FlagIsRead
  <2>3. field = Read(ReadBool(buf, at, held), at + 1) /\ MemberSize(type, v) = 1
    BY <1>4, ReadsAre, SizesAre
  <2>4. field.value = ReadBool(buf, at, held) /\ field.at = at + 1
    BY <2>3, FieldOf
  <2>5. QED
    BY <1>4, <2>2, <2>3, <2>4, Zenon DEF IsReadBack, ReadsBack
<1>5. CASE type = "rest"
  <2>1. v \in Texts /\ HasAt(buf, at, v) /\ MemberSize(type, v) = Len(v)
    BY <1>5, WritesAre, SizesAre DEF Fits
  <2>2. Len(v) \in Nat
    BY <2>1, TextsAre
  <2>3. PICK n : n = Len(buf)
    OBVIOUS
  <2>4. n - (at - 1) = Len(v) /\ n + 1 = at + Len(v)
    BY <1>5, <2>1, <2>2, <2>3
  <2>5. ReadText(buf, at, n - (at - 1)) = v
    BY <2>1, <2>4, TextIsRead
  <2>6. field = Read(v, at + Len(v))
    BY <1>5, <2>3, <2>4, <2>5, ReadsAre
  <2>7. QED
    BY <2>1, <2>6, FieldOf DEF IsReadBack, ReadsBack
<1>6. CASE type = "text"
  <2>1. v \in Texts /\ HasAt(buf, at, v) /\ MemberSize(type, v) = Len(v)
    BY <1>6, WritesAre, SizesAre DEF Fits
  <2>2. Len(v) = got.logEventTextLength
    BY <1>6 DEF IsMeasured, CountsAgree
  <2>3. ReadText(buf, at, Len(v)) = v
    BY <2>1, TextIsRead
  <2>4. field = Read(v, at + Len(v))
    BY <1>6, <2>2, <2>3, ReadsAre
  <2>5. QED
    BY <2>1, <2>4, FieldOf DEF IsReadBack, ReadsBack
<1>7. CASE type = "counted"
  <2>1. v \in Texts /\ HasAt(buf, at, WriteBER4(Len(v)) \o v)
    BY <1>7, WritesAre DEF Fits
  <2>2. ReadBER4(buf, at) = Len(v) /\ ReadText(buf, at + 4, Len(v)) = v /\ Len(v) \in Nat
    BY <2>1, CountedIs
  <2>3. at + 4 + Len(v) = at + (4 + Len(v))
    BY <2>2
  <2>4. field = Read(v, at + (4 + Len(v)))
    BY <1>7, <2>2, <2>3, ReadsAre
  <2>5. MemberSize(type, v) = 4 + Len(v)
    BY <1>7, SizesAre
  <2>6. field.value = v /\ field.at = at + MemberSize(type, v)
    BY <2>4, <2>5, FieldOf
  <2>7. QED
    BY <2>6, Zenon DEF IsReadBack, ReadsBack
<1>8. CASE type = "KLV"
  <2>1. v \in KLVs /\ HasAt(buf, at, KLVWrite(v))
    BY <1>8, WritesAre DEF Fits, KLVs
  <2>2. field = [value |-> v, at |-> at + KLVSize(v)]
    BY <1>8, <2>1, KLVIs, ReadsAre
  <2>3. MemberSize(type, v) = KLVSize(v)
    BY <1>8, SizesAre
  <2>4. field.value = v /\ field.at = at + MemberSize(type, v)
    BY <2>2, <2>3
  <2>5. QED
    BY <2>4, Zenon DEF IsReadBack, ReadsBack
<1>9. CASE type = "items"
  <2>1. v \in Seq(Number) /\ Len(v) = body.numberOfItems /\ got.numberOfItems = body.numberOfItems
    BY <1>9 DEF Fits, IsCounted, CountsAgree
  <2>2. PICK w : w = WriteMember(type, v, body)
    OBVIOUS
  <2>3. PICK n : n = body.numberOfItems
    OBVIOUS
  <2>4. w = FlattenSeq([i \in 1 .. n |-> Write32(v[i])])
    BY <1>9, <2>2, <2>3, WritesAre
  <2>5. HasAt(buf, at, w)
    BY <2>2
  <2>6. ReadItems(buf, at, n) = [value |-> v, at |-> at + 4 * n]
    <3>1. n = Len(v)
      BY <2>1, <2>3
    <3>2. \A b \in Seq(Bytes), a \in Nat \ {0} :
            HasAt(b, a, w) => ReadItems(b, a, n) = [value |-> v, at |-> a + 4 * n]
      BY ONLY <2>1, <2>4, <3>1, ItemsAre, SMTT(30)
    <3>3. QED
      BY <2>5, <3>2
  <2>7. field = [value |-> v, at |-> at + 4 * n] /\ MemberSize(type, v) = 4 * n
    <3>1. field = ReadItems(buf, at, n)
      BY <1>9, <2>1, <2>3, ReadsAre
    <3>2. MemberSize(type, v) = 4 * Len(v)
      BY <1>9, SizesAre
    <3>3. QED
      BY <2>1, <2>3, <2>6, <3>1, <3>2, Zenon
  <2>8. QED
    BY <2>7 DEF IsReadBack, ReadsBack
<1>10. CASE type = "extensions"
  <2>1. v = <<>> /\ got.timelineExtensionCount = 0
    BY <1>10 DEF Fits, IsCounted, CountsAgree
  <2>2. field = [value |-> <<>>, at |-> at] /\ MemberSize(type, v) = 0
    <3>1. Len(<<>>) = 0
      OBVIOUS
    <3>2. field = ReadKLVs(buf, at, got.timelineExtensionCount) /\ MemberSize(type, v) = Len(v)
      BY <1>10, ReadsAre, SizesAre
    <3>3. QED
      BY <2>1, <3>1, <3>2, NoExtensions, Zenon
  <2>3. at = at + 0
    OBVIOUS
  <2>4. QED
    BY <2>1, <2>2, <2>3 DEF IsReadBack, ReadsBack
<1>11. QED
  BY <1>1, <1>2, <1>3, <1>4, <1>5, <1>6, <1>7, <1>8, <1>9, <1>10 DEF Types

-----------------------------------------------------------------------------
(* The classes.                                                            *)

\* How a class is built: its members' names differ, the long members and the output mode
\* are what their types say, a text of open length comes last, and what is counted by
\* another member comes behind it.
IsClass(c) ==
  /\ Len(c) \in Nat \ {0} /\ DOMAIN c = 1 .. Len(c)
  /\ \A i \in 1 .. Len(c) :
       /\ c[i].type \in Types
       /\ c[i].type \in {"int64", "uint64"} => c[i].name \in LongMembers
       /\ c[i].type = "bool" => c[i].name = "outputMode"
       /\ c[i].name \in {"numberOfItems", "logEventTextLength", "timelineExtensionCount"} =>
            c[i].type \in {"uint32", "BER4"}
       /\ c[i].type = "rest" => i = Len(c)
       /\ \A j \in 1 .. Len(c) : c[i].name = c[j].name => i = j
       /\ c[i].type = "items" => \E j \in 1 .. i - 1 : c[j].name = "numberOfItems"
       /\ c[i].type = "text" => \E j \in 1 .. i - 1 : c[j].name = "logEventTextLength"
       /\ c[i].type = "extensions" => \E j \in 1 .. i - 1 : c[j].name = "timelineExtensionCount"

LEMMA FirstOnes ==
  /\ \A k, n \in Nat : k + 1 \in 1 .. n => \A j \in 1 .. k : j \in 1 .. n
  /\ \A k \in Nat : \A j \in 1 .. k + 1 : j = k + 1 \/ j \in 1 .. k
  /\ \A x, y \in Nat : x + y = (x + 1) + y - 1
OBVIOUS

LEMMA BasicResponseIs == IsClass(BasicResponse)
  BY DEF IsClass, Types, BasicResponse, RequestID, StatusResponse, Member, LongMembers

LEMMA AnnounceRequestIs == IsClass(AnnounceRequest)
  BY DEF IsClass, Types, AnnounceRequest, RequestID, StatusResponse, Member, LongMembers

LEMMA AnnounceResponseIs == IsClass(AnnounceResponse)
  BY DEF IsClass, Types, AnnounceResponse, RequestID, StatusResponse, Member, LongMembers

LEMMA GetNewLeaseRequestIs == IsClass(GetNewLeaseRequest)
  BY DEF IsClass, Types, GetNewLeaseRequest, RequestID, StatusResponse, Member, LongMembers

LEMMA GetStatusRequestIs == IsClass(GetStatusRequest)
  BY DEF IsClass, Types, GetStatusRequest, RequestID, StatusResponse, Member, LongMembers

LEMMA SetRPLLocationRequestIs == IsClass(SetRPLLocationRequest)
  BY DEF IsClass, Types, SetRPLLocationRequest, RequestID, StatusResponse, Member, LongMembers

LEMMA UpdateTimelineRequestIs == IsClass(UpdateTimelineRequest)
  BY DEF IsClass, Types, UpdateTimelineRequest, RequestID, StatusResponse, Member, LongMembers

LEMMA SetOutputModeRequestIs == IsClass(SetOutputModeRequest)
  BY DEF IsClass, Types, SetOutputModeRequest, RequestID, StatusResponse, Member, LongMembers

LEMMA TerminateLeaseRequestIs == IsClass(TerminateLeaseRequest)
  BY DEF IsClass, Types, TerminateLeaseRequest, RequestID, StatusResponse, Member, LongMembers

LEMMA GetLogEventListRequestIs == IsClass(GetLogEventListRequest)
  BY DEF IsClass, Types, GetLogEventListRequest, RequestID, StatusResponse, Member, LongMembers

LEMMA GetLogEventListResponseIs == IsClass(GetLogEventListResponse)
  BY DEF IsClass, Types, GetLogEventListResponse, RequestID, StatusResponse, Member, LongMembers

LEMMA GetLogEventRequestIs == IsClass(GetLogEventRequest)
  BY DEF IsClass, Types, GetLogEventRequest, RequestID, StatusResponse, Member, LongMembers

LEMMA GetLogEventResponseIs == IsClass(GetLogEventResponse)
  BY DEF IsClass, Types, GetLogEventResponse, RequestID, StatusResponse, Member, LongMembers

LEMMA ClassesAre == \A kind \in DOMAIN Class : IsClass(Class[kind])
  BY BasicResponseIs, AnnounceRequestIs, AnnounceResponseIs, GetNewLeaseRequestIs, GetStatusRequestIs,
     SetRPLLocationRequestIs, UpdateTimelineRequestIs, SetOutputModeRequestIs, TerminateLeaseRequestIs,
     GetLogEventListRequestIs, GetLogEventListResponseIs, GetLogEventRequestIs,
     GetLogEventResponseIs DEF Class

\* Every kind has its byte, and no two of them the same.
LEMMA KindsAre ==
  /\ DOMAIN Kind2 = DOMAIN Class
  /\ \A kind \in DOMAIN Class : Kind2[kind] \in 0 .. 127
  /\ \A kind, k \in DOMAIN Class : Kind2[kind] = Kind2[k] => kind = k
  BY DEF Kind2, Class

-----------------------------------------------------------------------------
(* Payloads.                                                               *)

\* f[i] is the size of the first i members.
SizesTo(f, c, body, n) ==
  f = [i \in 0 .. n |-> IF i = 0 THEN 0 ELSE f[i - 1] + MemberSize(c[i].type, body[c[i].name])]

LEMMA SizesExists ==
  ASSUME NEW c, NEW body, NEW n \in Nat
  PROVE  \E f : SizesTo(f, c, body, n)
<1> DEFINE base == 0
           Step(x, i) == x + MemberSize(c[i].type, body[c[i].name])
           Holds == {k \in Nat : \E f : f = [i \in 0 .. k |-> IF i = 0 THEN base ELSE Step(f[i - 1], i)]}
<1> HIDE DEF base, Step
<1>1. 0 \in Holds
  <2> DEFINE f == [i \in 0 .. 0 |-> base]
  <2>1. f = [i \in 0 .. 0 |-> IF i = 0 THEN base ELSE Step(f[i - 1], i)]
    OBVIOUS
  <2>2. QED
    BY <2>1
<1>2. ASSUME NEW k \in Nat, k < n, k \in Holds
      PROVE  k + 1 \in Holds
  <2>1. PICK f : f = [i \in 0 .. k |-> IF i = 0 THEN base ELSE Step(f[i - 1], i)]
    BY <1>2
  <2> DEFINE g == [i \in 0 .. k + 1 |-> IF i = 0 THEN base ELSE Step(f[i - 1], i)]
             h == [i \in 0 .. k + 1 |-> IF i = 0 THEN base ELSE Step(g[i - 1], i)]
  <2>2. \A i \in 0 .. k : g[i] = f[i]
    BY <2>1
  <2>3. \A i \in 0 .. k + 1 : g[i] = h[i]
    <3>1. \A i \in 0 .. k + 1 : i # 0 => i - 1 \in 0 .. k
      OBVIOUS
    <3>2. QED
      BY <2>2, <3>1
  <2>4. g = h
    BY <2>3
  <2> HIDE DEF g
  <2>5. QED
    BY <2>4
<1>3. 0 .. n \subseteq Holds
  <2>1. Holds \in SUBSET Nat
    OBVIOUS
  <2> HIDE DEF Holds
  <2>2. QED
    BY <1>1, <1>2, <2>1, FromZero
<1>4. QED
  BY <1>3 DEF SizesTo, base, Step

SizesFollow(f, c, body, n) ==
  /\ f[0] = 0
  /\ \A k \in Nat : k < n => f[k + 1] = f[k] + MemberSize(c[k + 1].type, body[c[k + 1].name])

LEMMA SizesSteps ==
  ASSUME NEW c, NEW body, NEW n \in Nat, NEW f, SizesTo(f, c, body, n)
  PROVE  SizesFollow(f, c, body, n)
<1> DEFINE base == 0
           Step(x, i) == x + MemberSize(c[i].type, body[c[i].name])
<1>1. f = [i \in 0 .. n |-> IF i = 0 THEN base ELSE Step(f[i - 1], i)]
  BY DEF SizesTo
<1> HIDE DEF base, Step
<1>2. f[0] = base
  BY <1>1
<1>3. ASSUME NEW k \in Nat, k < n
      PROVE  f[k + 1] = Step(f[k], k + 1)
  <2>1. k + 1 \in 0 .. n /\ k + 1 # 0 /\ (k + 1) - 1 = k
    BY <1>3
  <2>2. f[k + 1] = Step(f[(k + 1) - 1], k + 1)
    BY <1>1, <2>1
  <2>3. QED
    BY <2>1, <2>2
<1>4. QED
  BY <1>2, <1>3 DEF base, Step, SizesFollow

\* f[i] is what was read with the first i members.
MembersTo(f, c, buf, held, n) ==
  f = [i \in 0 .. n |-> IF i = 0 THEN [at |-> 1, body |-> <<>>] ELSE NextMember(f[i - 1], c[i], buf, held)]

LEMMA MembersExists ==
  ASSUME NEW c, NEW buf, NEW held, NEW n \in Nat
  PROVE  \E f : MembersTo(f, c, buf, held, n)
<1> DEFINE base == [at |-> 1, body |-> <<>>]
           Step(x, i) == NextMember(x, c[i], buf, held)
           Holds == {k \in Nat : \E f : f = [i \in 0 .. k |-> IF i = 0 THEN base ELSE Step(f[i - 1], i)]}
<1> HIDE DEF base, Step
<1>1. 0 \in Holds
  <2> DEFINE f == [i \in 0 .. 0 |-> base]
  <2>1. f = [i \in 0 .. 0 |-> IF i = 0 THEN base ELSE Step(f[i - 1], i)]
    OBVIOUS
  <2>2. QED
    BY <2>1
<1>2. ASSUME NEW k \in Nat, k < n, k \in Holds
      PROVE  k + 1 \in Holds
  <2>1. PICK f : f = [i \in 0 .. k |-> IF i = 0 THEN base ELSE Step(f[i - 1], i)]
    BY <1>2
  <2> DEFINE g == [i \in 0 .. k + 1 |-> IF i = 0 THEN base ELSE Step(f[i - 1], i)]
             h == [i \in 0 .. k + 1 |-> IF i = 0 THEN base ELSE Step(g[i - 1], i)]
  <2>2. \A i \in 0 .. k : g[i] = f[i]
    BY <2>1
  <2>3. \A i \in 0 .. k + 1 : g[i] = h[i]
    <3>1. \A i \in 0 .. k + 1 : i # 0 => i - 1 \in 0 .. k
      OBVIOUS
    <3>2. QED
      BY <2>2, <3>1
  <2>4. g = h
    BY <2>3
  <2> HIDE DEF g
  <2>5. QED
    BY <2>4
<1>3. 0 .. n \subseteq Holds
  <2>1. Holds \in SUBSET Nat
    OBVIOUS
  <2> HIDE DEF Holds
  <2>2. QED
    BY <1>1, <1>2, <2>1, FromZero
<1>4. QED
  BY <1>3 DEF MembersTo, base, Step

MembersFollow(f, c, buf, held, n) ==
  /\ f[0] = [at |-> 1, body |-> <<>>]
  /\ \A k \in Nat : k < n => f[k + 1] = NextMember(f[k], c[k + 1], buf, held)

LEMMA MembersSteps ==
  ASSUME NEW c, NEW buf, NEW held, NEW n \in Nat, NEW f, MembersTo(f, c, buf, held, n)
  PROVE  MembersFollow(f, c, buf, held, n)
<1> DEFINE base == [at |-> 1, body |-> <<>>]
           Step(x, i) == NextMember(x, c[i], buf, held)
<1>1. f = [i \in 0 .. n |-> IF i = 0 THEN base ELSE Step(f[i - 1], i)]
  BY DEF MembersTo
<1> HIDE DEF base, Step
<1>2. f[0] = base
  BY <1>1
<1>3. ASSUME NEW k \in Nat, k < n
      PROVE  f[k + 1] = Step(f[k], k + 1)
  <2>1. k + 1 \in 0 .. n /\ k + 1 # 0 /\ (k + 1) - 1 = k
    BY <1>3
  <2>2. f[k + 1] = Step(f[(k + 1) - 1], k + 1)
    BY <1>1, <2>1
  <2>3. QED
    BY <2>1, <2>2
<1>4. QED
  BY <1>2, <1>3 DEF base, Step, MembersFollow

\* How a message of the class c is laid out in its payload: ends[i] is where its first i
\* members end.
LaidOut(msg, c, ends) ==
  /\ ends[0] = 0 /\ \A k \in 0 .. Len(c) : ends[k] \in Nat
  /\ \A k \in Nat : k < Len(c) =>
       ends[k + 1] = ends[k] + MemberSize(c[k + 1].type, msg.body[c[k + 1].name])
  /\ GetPayloadSize(msg) = ends[Len(c)]
  /\ WritePayload(msg) \in Seq(Bytes) /\ Len(WritePayload(msg)) = ends[Len(c)]
  /\ \A i \in 1 .. Len(c) :
       HasAt(WritePayload(msg), ends[i - 1] + 1,
             WriteMember(c[i].type, msg.body[c[i].name], msg.body))

LEMMA MembersAreWritten ==
  ASSUME NEW msg, IsMessage(msg), ItemsAreCounted(msg), NEW c, c = Class[msg.kind]
  PROVE  /\ IsClass(c)
         /\ \A i \in 1 .. Len(c) : /\ Fits(c[i].type, msg.body[c[i].name], msg.body)
                                   /\ IsCounted(c[i].type, msg.body[c[i].name], msg.body)
                                   /\ IsWritten(c[i].type, msg.body[c[i].name], msg.body)
<1>1. IsClass(c)
  BY ClassesAre DEF IsMessage
<1>2. \A i \in 1 .. Len(c) : c[i].type \in Types
  BY <1>1 DEF IsClass
<1>3. \A i \in 1 .. Len(c) : Fits(c[i].type, msg.body[c[i].name], msg.body)
  BY <1>1 DEF IsClass, IsMessage
<1>4. \A i \in 1 .. Len(c) : IsCounted(c[i].type, msg.body[c[i].name], msg.body)
  BY <1>1 DEF IsClass, ItemsAreCounted
<1>5. QED
  BY <1>1, <1>2, <1>3, <1>4, MemberIsWritten

LEMMA PayloadIsLaidOut ==
  ASSUME NEW msg, IsMessage(msg), ItemsAreCounted(msg), NEW c, c = Class[msg.kind]
  PROVE  \E ends : LaidOut(msg, c, ends)
<1>1. /\ Len(c) \in Nat /\ DOMAIN c = 1 .. Len(c)
      /\ \A i \in 1 .. Len(c) : IsWritten(c[i].type, msg.body[c[i].name], msg.body)
  BY MembersAreWritten DEF IsClass
<1> DEFINE f == CHOOSE f : SizesTo(f, c, msg.body, Len(c))
<1>2. SizesTo(f, c, msg.body, Len(c))
  BY <1>1, SizesExists
<1>3. GetPayloadSize(msg) = f[Len(c)]
  BY DEF GetPayloadSize, SizesTo
<1> HIDE DEF f
<1>4. /\ f[0] = 0
      /\ \A k \in Nat : k < Len(c) =>
           f[k + 1] = f[k] + MemberSize(c[k + 1].type, msg.body[c[k + 1].name])
  <2>1. PICK body : body = msg.body
    OBVIOUS
  <2>2. SizesTo(f, c, body, Len(c)) /\ Len(c) \in Nat
    BY <1>1, <1>2, <2>1
  <2>3. SizesFollow(f, c, body, Len(c))
    BY ONLY <2>2, SizesSteps
  <2>4. QED
    BY <2>1, <2>3 DEF SizesFollow
<1>5. PICK q : q = [i \in 1 .. Len(c) |-> WriteMember(c[i].type, msg.body[c[i].name], msg.body)]
  OBVIOUS
<1>6. \A i \in 1 .. Len(c) :
        /\ q[i] = WriteMember(c[i].type, msg.body[c[i].name], msg.body) /\ q[i] \in Seq(Bytes)
        /\ Len(q[i]) = MemberSize(c[i].type, msg.body[c[i].name]) /\ Len(q[i]) \in Nat
  <2>1. \A i \in 1 .. Len(c) : q[i] = WriteMember(c[i].type, msg.body[c[i].name], msg.body)
    BY <1>5
  <2>2. QED
    BY <1>1, <2>1 DEF IsWritten
<1>7. q \in Seq(Seq(Bytes)) /\ Len(q) = Len(c)
  <2>1. \A S : \A m \in Nat : \A g : g = [i \in 1 .. m |-> g[i]] /\ (\A i \in 1 .. m : g[i] \in S) =>
          g \in Seq(S) /\ Len(g) = m
    OBVIOUS
  <2>2. q = [i \in 1 .. Len(c) |-> q[i]]
    BY <1>5
  <2>3. Len(c) \in Nat /\ \A i \in 1 .. Len(c) : q[i] \in Seq(Bytes)
    BY <1>1, <1>6
  <2>4. QED
    BY ONLY <2>1, <2>2, <2>3, Zenon
<1>8. WritePayload(msg) = FlattenSeq(q)
  BY <1>1, <1>5 DEF WritePayload
<1>9. \A k \in Nat : k < Len(q) => f[k + 1] = f[k] + Len(q[k + 1])
  <2>1. \A k \in Nat : k < Len(c) => k + 1 \in 1 .. Len(c)
    BY <1>1
  <2>2. QED
    BY <1>4, <1>6, <1>7, <2>1
<1>10. FlattenSeq(q) \in Seq(Bytes)
  BY <1>7, FlattenType
<1>11. /\ Len(FlattenSeq(q)) = f[Len(c)]
       /\ \A i \in 1 .. Len(c) : HasAt(FlattenSeq(q), f[i - 1] + 1, q[i])
  BY <1>4, <1>7, <1>9, FlattenHas
<1> DEFINE Holds == {k \in Nat : f[k] \in Nat}
<1>12. 0 \in Holds
  BY <1>4
<1>13. ASSUME NEW k \in Nat, k < Len(c), k \in Holds
       PROVE  k + 1 \in Holds
  <2>1. k + 1 \in 1 .. Len(c) /\ f[k] \in Nat
    BY <1>1, <1>13
  <2>2. f[k + 1] = f[k] + Len(q[k + 1]) /\ Len(q[k + 1]) \in Nat
    BY <1>6, <1>7, <1>9, <1>13, <2>1
  <2>3. QED
    BY <2>1, <2>2
<1>14. Holds \in SUBSET Nat
  OBVIOUS
<1>15. 0 .. Len(c) \subseteq Holds
  <2> HIDE DEF Holds
  <2>1. QED
    BY <1>1, <1>12, <1>13, <1>14, FromZero
<1>16. \A k \in 0 .. Len(c) : f[k] \in Nat
  BY <1>15
<1>17. LaidOut(msg, c, f)
  BY <1>3, <1>4, <1>6, <1>8, <1>10, <1>11, <1>16 DEF LaidOut
<1>18. QED
  BY <1>17

\* What was read with the first k members.
ReadSoFar(r, msg, c, k, ends) ==
  /\ r.at = ends[k] + 1 /\ DOMAIN r.body = {c[i].name : i \in 1 .. k}
  /\ \A i \in 1 .. k : ReadsBack(c[i].type, r.body[c[i].name], msg.body[c[i].name])

\* The counts are numbers, which read as they were written.
LEMMA CountIsRead ==
  ASSUME NEW c, IsClass(c), NEW msg, NEW k \in Nat, k < Len(c), NEW r, NEW ends,
         ReadSoFar(r, msg, c, k, ends)
  PROVE  CountsAgree(c[k + 1].type, r.body, msg.body)
<1>1. k + 1 \in 1 .. Len(c) /\ (k + 1) - 1 = k /\ Len(c) \in Nat
  <2>1. Len(c) \in Nat
    BY DEF IsClass
  <2>2. QED
    BY <2>1
<1>2. ASSUME NEW j \in 1 .. k,
             c[j].name \in {"numberOfItems", "logEventTextLength", "timelineExtensionCount"}
      PROVE  r.body[c[j].name] = msg.body[c[j].name]
  <2>1. j \in 1 .. Len(c)
    BY <1>1, FirstOnes, Zenon
  <2>2. c[j].type \in {"uint32", "BER4"}
    BY <1>2, <2>1, Zenon DEF IsClass
  <2>3. ReadsBack(c[j].type, r.body[c[j].name], msg.body[c[j].name])
    BY <1>2 DEF ReadSoFar
  <2>4. QED
    BY <2>2, <2>3 DEF ReadsBack
<1>3. /\ c[k + 1].type = "items" => \E j \in 1 .. k : c[j].name = "numberOfItems"
      /\ c[k + 1].type = "text" => \E j \in 1 .. k : c[j].name = "logEventTextLength"
      /\ c[k + 1].type = "extensions" => \E j \in 1 .. k : c[j].name = "timelineExtensionCount"
  <2>1. \A i \in 1 .. Len(c) :
          /\ c[i].type = "items" => \E j \in 1 .. i - 1 : c[j].name = "numberOfItems"
          /\ c[i].type = "text" => \E j \in 1 .. i - 1 : c[j].name = "logEventTextLength"
          /\ c[i].type = "extensions" =>
               \E j \in 1 .. i - 1 : c[j].name = "timelineExtensionCount"
    BY Zenon DEF IsClass
  <2>2. \A i \in 1 .. Len(c) : \A l : l = i - 1 =>
          /\ c[i].type = "items" => \E j \in 1 .. l : c[j].name = "numberOfItems"
          /\ c[i].type = "text" => \E j \in 1 .. l : c[j].name = "logEventTextLength"
          /\ c[i].type = "extensions" => \E j \in 1 .. l : c[j].name = "timelineExtensionCount"
    BY <2>1, Zenon
  <2>3. QED
    BY <1>1, <2>2, Zenon
<1>4. c[k + 1].type = "items" => r.body.numberOfItems = msg.body.numberOfItems
  BY <1>2, <1>3, Zenon
<1>5. c[k + 1].type = "text" => r.body.logEventTextLength = msg.body.logEventTextLength
  BY <1>2, <1>3, Zenon
<1>6. c[k + 1].type = "extensions" =>
        r.body.timelineExtensionCount = msg.body.timelineExtensionCount
  BY <1>2, <1>3, Zenon
<1>7. QED
  BY <1>4, <1>5, <1>6, Zenon DEF CountsAgree

LEMMA NextIsRead ==
  ASSUME NEW msg, IsMessage(msg), CountsAreRight(msg), NEW c, c = Class[msg.kind],
         NEW ends, LaidOut(msg, c, ends),
         NEW k \in Nat, k < Len(c), NEW r, ReadSoFar(r, msg, c, k, ends), NEW held
  PROVE  ReadSoFar(NextMember(r, c[k + 1], WritePayload(msg), held), msg, c, k + 1, ends)
<1> DEFINE buf == WritePayload(msg)
           m == c[k + 1]
           v == msg.body[m.name]
           field == ReadMember(m.type, buf, r.at, Len(buf), r.body, held)
           next == NextMember(r, m, buf, held)
<1>1. IsClass(c) /\ Fits(m.type, v, msg.body) /\ k + 1 \in 1 .. Len(c) /\ Len(c) \in Nat
  <2>1. IsClass(c) /\ \A i \in 1 .. Len(c) : Fits(c[i].type, msg.body[c[i].name], msg.body)
    BY MembersAreWritten DEF CountsAreRight
  <2>2. k + 1 \in 1 .. Len(c) /\ Len(c) \in Nat
    BY <2>1 DEF IsClass
  <2>3. QED
    BY <2>1, <2>2
<1>0. /\ IsCounted(m.type, v, msg.body) /\ IsMeasured(m.type, v, msg.body)
      /\ IsWritten(m.type, v, msg.body)
  <2>1. \A i \in 1 .. Len(c) : /\ IsCounted(c[i].type, msg.body[c[i].name], msg.body)
                               /\ IsWritten(c[i].type, msg.body[c[i].name], msg.body)
    BY MembersAreWritten DEF CountsAreRight
  <2>2. \A i \in 1 .. Len(c) : IsMeasured(c[i].type, msg.body[c[i].name], msg.body)
    BY <1>1 DEF CountsAreRight, IsClass
  <2>3. QED
    BY <1>1, <2>1, <2>2
<1>2. CountsAgree(m.type, r.body, msg.body)
  <2>1. CountsAgree(c[k + 1].type, r.body, msg.body)
    BY <1>1, CountIsRead, Zenon
  <2>2. QED
    BY <2>1
<1>3. /\ r.at = ends[k] + 1 /\ ends[k] \in Nat /\ buf \in Seq(Bytes)
      /\ Len(buf) = ends[Len(c)] /\ ends[k + 1] = ends[k] + MemberSize(m.type, v)
  BY <1>1 DEF LaidOut, ReadSoFar
<1>4. HasAt(buf, r.at, WriteMember(m.type, v, msg.body))
  <2>1. HasAt(buf, ends[(k + 1) - 1] + 1, WriteMember(m.type, v, msg.body))
    BY <1>1, SMTT(30) DEF LaidOut
  <2>2. (k + 1) - 1 = k
    BY ONLY k \in Nat
  <2>3. QED
    BY <1>3, <2>1, <2>2, Zenon
<1>5. m.type \in Types /\ (m.type = "rest" => k + 1 = Len(c))
  BY <1>1 DEF IsClass
<1>6. MemberSize(m.type, v) \in Nat
  BY <1>0 DEF IsWritten
<1>7. m.type = "rest" => Len(buf) = r.at + MemberSize(m.type, v) - 1
  <2>1. ASSUME m.type = "rest"
        PROVE  Len(buf) = ends[k + 1]
    BY <1>3, <1>5, <2>1
  <2> HIDE DEF m, v, buf
  <2>2. ends[k + 1] = r.at + MemberSize(m.type, v) - 1
    BY <1>3, <1>6, FirstOnes, Zenon
  <2>3. QED
    BY <2>1, <2>2
<1>8. IsReadBack(field, m.type, r.at, v)
  <2>1. r.at \in Nat \ {0}
    BY <1>3
  <2> HIDE DEF m, v, buf
  <2>2. QED
    BY <1>0, <1>1, <1>2, <1>3, <1>4, <1>5, <1>7, <2>1, MemberIsRead
<1>9. /\ next.at = field.at
      /\ next.body = [x \in DOMAIN r.body \cup {m.name} |->
                        IF x = m.name THEN field.value ELSE r.body[x]]
  BY DEF NextMember
<1>10. next.at = ends[k + 1] + 1
  <2> HIDE DEF next, field, m, v, buf
  <2>1. next.at = r.at + MemberSize(m.type, v)
    BY <1>8, <1>9 DEF IsReadBack
  <2>2. QED
    BY <1>3, <1>6, <2>1
<1>11. DOMAIN next.body = {c[i].name : i \in 1 .. k + 1}
  <2>1. DOMAIN next.body = {c[i].name : i \in 1 .. k} \cup {c[k + 1].name}
    BY <1>9 DEF ReadSoFar
  <2>2. \A i : i \in 1 .. k + 1 <=> i \in 1 .. k \/ i = k + 1
    OBVIOUS
  <2> HIDE DEF next
  <2>3. QED
    BY <2>1, <2>2, Zenon
<1>12. ASSUME NEW i \in 1 .. k + 1
       PROVE  ReadsBack(c[i].type, next.body[c[i].name], msg.body[c[i].name])
  <2>1. CASE i = k + 1
    <3>1. next.body[m.name] = field.value
      <4> HIDE DEF next, field, m
      <4>1. QED
        BY <1>9
    <3>2. ReadsBack(m.type, field.value, v)
      BY <1>8 DEF IsReadBack
    <3> HIDE DEF next, field
    <3>3. QED
      BY <2>1, <3>1, <3>2
  <2>2. CASE i # k + 1
    <3>1. i \in 1 .. k /\ i \in 1 .. Len(c)
      BY <1>1, <2>2, FirstOnes, Zenon
    <3>2. c[i].name # m.name
      BY <1>1, <2>2, <3>1 DEF IsClass
    <3>3. c[i].name \in DOMAIN r.body
      BY <3>1 DEF ReadSoFar
    <3>4. next.body[c[i].name] = r.body[c[i].name]
      <4> HIDE DEF next, field, m
      <4>1. QED
        BY <1>9, <3>2, <3>3
    <3>5. ReadsBack(c[i].type, r.body[c[i].name], msg.body[c[i].name])
      BY <3>1 DEF ReadSoFar
    <3> HIDE DEF next, m
    <3>6. QED
      BY <3>4, <3>5
  <2>3. QED
    BY <2>1, <2>2
<1>13. QED
  <2> HIDE DEF next, m
  <2>1. ReadSoFar(next, msg, c, k + 1, ends)
    BY <1>10, <1>11, <1>12 DEF ReadSoFar
  <2>2. QED
    BY <2>1 DEF next, m

\* A message that was written with the right counts is read with all its members, and to
\* the payload's end.
LEMMA PayloadIsRead ==
  ASSUME NEW msg, IsMessage(msg), CountsAreRight(msg), NEW held
  PROVE  /\ ReadAs(ReadPayload(msg.kind, WritePayload(msg), held).msg, msg)
         /\ ReadPayload(msg.kind, WritePayload(msg), held).at = Len(WritePayload(msg)) + 1
<1> DEFINE buf == WritePayload(msg)
<1>1. PICK c : c = Class[msg.kind]
  OBVIOUS
<1>2. PICK ends : LaidOut(msg, c, ends)
  BY <1>1, PayloadIsLaidOut DEF CountsAreRight
<1>3. IsClass(c) /\ Len(c) \in Nat
  BY <1>1, ClassesAre DEF IsMessage, IsClass
<1> DEFINE f == CHOOSE f : MembersTo(f, c, buf, held, Len(c))
<1>4. MembersTo(f, c, buf, held, Len(c))
  BY <1>3, MembersExists
<1>5. ReadPayload(msg.kind, buf, held)
        = [msg |-> [kind |-> msg.kind, body |-> f[Len(c)].body], at |-> f[Len(c)].at]
  BY <1>1 DEF ReadPayload, MembersTo
<1> HIDE DEF f
<1>6. /\ f[0] = [at |-> 1, body |-> <<>>]
      /\ \A k \in Nat : k < Len(c) => f[k + 1] = NextMember(f[k], c[k + 1], buf, held)
  <2>1. PICK b : b = buf
    OBVIOUS
  <2>2. MembersTo(f, c, b, held, Len(c)) /\ Len(c) \in Nat
    BY <1>3, <1>4, <2>1
  <2>3. MembersFollow(f, c, b, held, Len(c))
    BY ONLY <2>2, MembersSteps
  <2>4. QED
    BY <2>1, <2>3 DEF MembersFollow
<1> DEFINE Holds == {k \in Nat : ReadSoFar(f[k], msg, c, k, ends)}
<1>7. 0 \in Holds
  <2>1. f[0].at = 1 /\ f[0].body = <<>> /\ ends[0] = 0
    BY <1>2, <1>6 DEF LaidOut
  <2>2. DOMAIN f[0].body = {} /\ 1 .. 0 = {}
    BY <2>1
  <2>3. QED
    BY <2>1, <2>2 DEF ReadSoFar
<1>8. ASSUME NEW k \in Nat, k < Len(c), k \in Holds
      PROVE  k + 1 \in Holds
  <2>1. ReadSoFar(NextMember(f[k], c[k + 1], buf, held), msg, c, k + 1, ends)
    BY <1>1, <1>2, <1>8, NextIsRead
  <2>2. QED
    BY <1>6, <1>8, <2>1
<1>9. 0 .. Len(c) \subseteq Holds
  <2>1. Holds \in SUBSET Nat
    OBVIOUS
  <2> HIDE DEF Holds
  <2>2. QED
    BY <1>3, <1>7, <1>8, <2>1, FromZero
<1>10. ReadSoFar(f[Len(c)], msg, c, Len(c), ends)
  BY <1>3, <1>9
<1>11. PICK body : body = f[Len(c)].body
  OBVIOUS
<1>12. /\ f[Len(c)].at = Len(buf) + 1 /\ DOMAIN body = {c[i].name : i \in 1 .. Len(c)}
       /\ \A i \in 1 .. Len(c) : ReadsBack(c[i].type, body[c[i].name], msg.body[c[i].name])
  BY <1>2, <1>10, <1>11 DEF LaidOut, ReadSoFar
<1>13. DOMAIN body = DOMAIN msg.body
  BY <1>1, <1>3, <1>12 DEF IsMessage, IsClass
<1>14. ASSUME NEW name \in DOMAIN msg.body
       PROVE  \/ body[name] = msg.body[name]
              \/ name \in LongMembers /\ body[name] = [msg.body[name] EXCEPT !.hi = 0]
              \/ name = "outputMode" /\ ~msg.body[name]
  <2>1. PICK i \in 1 .. Len(c) : name = c[i].name
    BY <1>12, <1>13
  <2>2. ReadsBack(c[i].type, body[name], msg.body[name])
    BY <1>12, <2>1
  <2>3. /\ c[i].type \in {"int64", "uint64"} => name \in LongMembers
        /\ c[i].type = "bool" => name = "outputMode"
    BY <1>3, <2>1, Zenon DEF IsClass
  <2>4. QED
    BY <2>2, <2>3, Zenon DEF ReadsBack
<1>15. ReadPayload(msg.kind, buf, held) = [msg |-> [kind |-> msg.kind, body |-> body],
                                          at |-> Len(buf) + 1]
  BY <1>5, <1>11, <1>12
<1> HIDE DEF buf
<1>16. PICK got : got = [kind |-> msg.kind, body |-> body]
  OBVIOUS
<1>17. got.kind = msg.kind /\ got.body = body
  BY <1>16
<1>18. ReadAs(got, msg)
  BY <1>13, <1>14, <1>17, Zenon DEF ReadAs
<1>19. QED
  <2>1. ReadPayload(msg.kind, buf, held).msg = got /\ ReadPayload(msg.kind, buf, held).at = Len(buf) + 1
    BY <1>15, <1>16
  <2>2. QED
    BY <1>18, <2>1 DEF buf

-----------------------------------------------------------------------------
(* Sequences, taken apart and put together.                                *)

LEMMA PushIs ==
  \A S : \A s \in Seq(S), x \in S : Append(s, x) = s \o <<x>> /\ <<x>> \in Seq(S)
OBVIOUS

LEMMA PopIs ==
  ASSUME NEW S, NEW s \in Seq(S), s # <<>>
  PROVE  /\ Head(s) \in S /\ Tail(s) \in Seq(S) /\ <<Head(s)>> \in Seq(S)
         /\ s = <<Head(s)>> \o Tail(s)
<1>1. Head(s) \in S /\ Tail(s) \in Seq(S) /\ Head(s) = s[1]
  BY HeadTailProperties
<1>2. 1 \in 1 .. Len(s) /\ Len(s) \in 1 .. Len(s)
  OBVIOUS
<1>3. SubSeq(s, 1, Len(s)) = <<s[1]>> \o SubSeq(s, 2, Len(s))
  BY <1>2, SubSeqRecursiveFirst
<1>4. SubSeq(s, 1, Len(s)) = s /\ Tail(s) = SubSeq(s, 2, Len(s))
  BY SubSeqFull, TailIsSubSeq
<1>5. <<Head(s)>> \in Seq(S)
  BY <1>1
<1>6. QED
  BY <1>1, <1>3, <1>4, <1>5, Zenon

LEMMA SplitsAt ==
  ASSUME NEW S, NEW s \in Seq(S), NEW n \in 0 .. Len(s)
  PROVE  /\ SubSeq(s, 1, n) \in Seq(S) /\ Len(SubSeq(s, 1, n)) = n
         /\ SubSeq(s, n + 1, Len(s)) \in Seq(S)
         /\ SubSeq(s, 1, n) \o SubSeq(s, n + 1, Len(s)) = s
<1>1. Len(s) \in Nat /\ 1 \in 1 .. Len(s) + 1 /\ n \in (1 - 1) .. Len(s) /\ Len(s) \in n .. Len(s)
  OBVIOUS
<1>2. \A i \in 1 .. Len(s) : s[i] \in S
  OBVIOUS
<1>3. SubSeq(s, 1, n) \in Seq(S) /\ Len(SubSeq(s, 1, n)) = n
  <2>1. \A i \in 1 .. n : s[i] \in S
    BY <1>1, <1>2
  <2>2. /\ SubSeq(s, 1, n) \in Seq(S)
        /\ Len(SubSeq(s, 1, n)) = IF 1 <= n THEN n - 1 + 1 ELSE 0
    BY <2>1, SubSeqProperties
  <2>3. QED
    BY <2>2
<1>4. SubSeq(s, n + 1, Len(s)) \in Seq(S)
  <2>1. PICK m \in Int : m = n + 1
    OBVIOUS
  <2>2. \A i \in m .. Len(s) : s[i] \in S
    BY <1>1, <1>2, <2>1
  <2>3. SubSeq(s, m, Len(s)) \in Seq(S)
    BY <1>1, <2>2, SubSeqProperties
  <2>4. QED
    BY <2>1, <2>3
<1>5. SubSeq(s, 1, n) \o SubSeq(s, n + 1, Len(s)) = SubSeq(s, 1, Len(s))
  BY <1>1, ConcatAdjacentSubSeq
<1>6. QED
  BY <1>3, <1>4, <1>5, SubSeqFull

\* Two fronts of the same length of one sequence are the same, and so is what follows.
LEMMA SameFront ==
  ASSUME NEW S, NEW u \in Seq(S), NEW v \in Seq(S), NEW p \in Seq(S), NEW q \in Seq(S),
         u \o v = p \o q, Len(u) = Len(p)
  PROVE  u = p /\ v = q
<1>1. \A a, b \in Seq(S) : /\ Len(a \o b) = Len(a) + Len(b) /\ Len(a) \in Nat /\ Len(b) \in Nat
                           /\ \A i \in 1 .. Len(a) : (a \o b)[i] = a[i]
                           /\ \A i \in 1 .. Len(b) : (a \o b)[Len(a) + i] = b[i]
  OBVIOUS
<1>2. PICK w : w = u \o v
  OBVIOUS
<1>3. w = p \o q
  BY <1>2
<1>4. /\ Len(w) = Len(u) + Len(v) /\ Len(u) \in Nat /\ Len(v) \in Nat
      /\ \A i \in 1 .. Len(u) : w[i] = u[i]
      /\ \A i \in 1 .. Len(v) : w[Len(u) + i] = v[i]
  BY ONLY <1>1, <1>2, u \in Seq(S), v \in Seq(S)
<1>5. /\ Len(w) = Len(u) + Len(q) /\ Len(q) \in Nat
      /\ \A i \in 1 .. Len(u) : w[i] = p[i]
      /\ \A i \in 1 .. Len(q) : w[Len(u) + i] = q[i]
  BY ONLY <1>1, <1>3, p \in Seq(S), q \in Seq(S), Len(u) = Len(p)
<1>6. Len(v) = Len(q)
  BY ONLY <1>4, <1>5
<1>7. \A i \in 1 .. Len(u) : u[i] = p[i]
  BY ONLY <1>4, <1>5
<1>8. \A i \in 1 .. Len(v) : v[i] = q[i]
  BY ONLY <1>4, <1>5, <1>6
<1>9. u = p
  BY <1>7, SeqEqual
<1>10. v = q
  BY <1>6, <1>8, SeqEqual
<1>11. QED
  BY <1>9, <1>10

\* A function of the elements of a sequence, its values one behind the other.
Spread(f, s) == FlattenSeq([i \in DOMAIN s |-> f[s[i]]])

SpreadsOut(f, s, M, S) ==
  /\ Spread(f, s) \in Seq(S) /\ Spread(f, <<>>) = <<>>
  /\ \A x \in M : Spread(f, Append(s, x)) = Spread(f, s) \o f[x]
  /\ s # <<>> => Spread(f, s) = f[Head(s)] \o Spread(f, Tail(s))

LEMMA SpreadIs ==
  ASSUME NEW M, NEW S, NEW f \in [M -> Seq(S)], NEW s \in Seq(M)
  PROVE  SpreadsOut(f, s, M, S)
<1> DEFINE Values(t) == [i \in DOMAIN t |-> f[t[i]]]
<1>1. PICK T : T = Seq(S)
  OBVIOUS
<1>2. \A t \in Seq(M) : Values(t) \in Seq(T) /\ Len(Values(t)) = Len(t)
  <2>1. ASSUME NEW t \in Seq(M)
        PROVE  Values(t) \in Seq(T) /\ Len(Values(t)) = Len(t)
    <3>1. /\ Len(t) \in Nat /\ Values(t) = [i \in 1 .. Len(t) |-> Values(t)[i]]
          /\ \A i \in 1 .. Len(t) : Values(t)[i] \in T
      BY <1>1
    <3> HIDE DEF Values
    <3>2. QED
      BY <3>1, ManyAre, Zenon
  <2> HIDE DEF Values
  <2>2. QED
    BY <2>1
<1>3. Values(<<>>) = <<>>
  OBVIOUS
<1>4. \A x \in M : Values(Append(s, x)) = Append(Values(s), f[x])
  BY <1>1
<1>5. s # <<>> => /\ Values(s) # <<>> /\ Head(Values(s)) = f[Head(s)] /\ Tail(s) \in Seq(M)
                  /\ Tail(Values(s)) = Values(Tail(s))
  BY <1>1
<1>6. \A t : Spread(f, t) = FlattenSeq(Values(t))
  BY DEF Spread
<1> HIDE DEF Values
<1>7. Values(s) \in Seq(Seq(S))
  BY <1>1, <1>2
<1>8. Spread(f, s) \in Seq(S)
  BY <1>6, <1>7, FlattenType
<1>9. Spread(f, <<>>) = <<>>
  BY <1>3, <1>6, FlattenNone
<1>10. \A x \in M : FlattenSeq(Append(Values(s), f[x])) = FlattenSeq(Values(s)) \o f[x]
  BY <1>7, FlattenPush
<1>11. s # <<>> => FlattenSeq(Values(s)) = Head(Values(s)) \o FlattenSeq(Tail(Values(s)))
  BY <1>5, <1>7, FlattenPop
<1>12. QED
  BY <1>4, <1>5, <1>6, <1>8, <1>9, <1>10, <1>11 DEF SpreadsOut

-----------------------------------------------------------------------------
(* Messages on the channel.                                                *)

Sendable == UNION {ToSet(script) : script \in Scripts}

LEMMA SendableAreMessages == \A msg \in Sendable : IsMessage(msg)
  BY MessagesAssumption DEF Sendable

\* The length in a header, whatever the header.
LEMMA HeaderLengthIs ==
  ASSUME NEW header \in Seq(Bytes), Len(header) = 20
  PROVE  HeaderLength(header) \in Nat
<1>1. header[18] \in Nat /\ header[19] \in Nat /\ header[20] \in Nat
  <2>1. \A i \in 1 .. 20 : header[i] \in Bytes
    <3>1. \A S : \A q \in Seq(S) : \A i \in 1 .. Len(q) : q[i] \in S
      OBVIOUS
    <3>2. QED
      BY <3>1, Zenon
  <2>2. 18 \in 1 .. 20 /\ 19 \in 1 .. 20 /\ 20 \in 1 .. 20
    OBVIOUS
  <2>3. QED
    BY <2>1, <2>2, BytesAre
<1>2. HeaderLength(header) = (header[18] * Byte + header[19]) * Byte + header[20]
  BY DEF HeaderLength, ReadBER4
<1>3. \A a, b \in Nat : a * b \in Nat /\ a + b \in Nat
  OBVIOUS
<1>4. header[18] * Byte + header[19] \in Nat
  BY <1>1, <1>3, ByteAssumption, Zenon
<1>5. (header[18] * Byte + header[19]) * Byte + header[20] \in Nat
  BY <1>1, <1>3, <1>4, ByteAssumption, Zenon
<1>6. QED
  BY <1>2, <1>5, Zenon

\* The key says which message the header is of, and the factory knows nearly all.
KeyOf(msg) == <<6, 14, 43, 52, 2, 5, 1, 1, 2, 7, 2, 2, Kind2[msg.kind], 0, 0, 0>>

LEMMA KeyIs ==
  ASSUME NEW msg, IsMessage(msg)
  PROVE  /\ KeyOf(msg) \in Seq(Bytes) /\ Len(KeyOf(msg)) = 16
         /\ KeyOf(msg)[12] = 2 /\ KeyOf(msg)[13] = Kind2[msg.kind]
<1>1. PICK k \in 0 .. 127 : k = Kind2[msg.kind]
  BY KindsAre DEF IsMessage
<1>2. \A k2 \in 0 .. 127 :
        LET key == <<6, 14, 43, 52, 2, 5, 1, 1, 2, 7, 2, 2, k2, 0, 0, 0>>
        IN  key \in Seq(0 .. 127) /\ Len(key) = 16 /\ key[12] = 2 /\ key[13] = k2
  OBVIOUS
<1>3. KeyOf(msg) = <<6, 14, 43, 52, 2, 5, 1, 1, 2, 7, 2, 2, k, 0, 0, 0>>
  BY <1>1 DEF KeyOf
<1>4. /\ KeyOf(msg) \in Seq(0 .. 127) /\ Len(KeyOf(msg)) = 16
      /\ KeyOf(msg)[12] = 2 /\ KeyOf(msg)[13] = k
  BY <1>2, <1>3
<1>5. \A Q, R : Q \subseteq R => \A q \in Seq(Q) : q \in Seq(R)
  OBVIOUS
<1>6. KeyOf(msg) \in Seq(Bytes)
  BY <1>4, <1>5, BytesAre, Zenon
<1>7. QED
  BY <1>1, <1>4, <1>6

LEMMA HeaderIs ==
  ASSUME NEW msg, IsMessage(msg)
  PROVE  /\ WriteHeader(msg) \in Seq(Bytes) /\ Len(WriteHeader(msg)) = 20
         /\ HeaderLength(WriteHeader(msg)) = GetPayloadSize(msg)
         /\ CreatedKinds(WriteHeader(msg)) = IF msg.kind \in LostKinds THEN {} ELSE {msg.kind}
<1>1. PICK key \in Seq(Bytes) :
        key = KeyOf(msg) /\ Len(key) = 16 /\ key[12] = 2 /\ key[13] = Kind2[msg.kind]
  BY KeyIs
<1>2. GetPayloadSize(msg) \in Lengths
  BY DEF IsMessage
<1>3. PICK len \in Seq(Bytes) : len = WriteBER4(GetPayloadSize(msg)) /\ Len(len) = 4
  BY <1>2, BER4Is
<1>4. WriteHeader(msg) = key \o len
  BY <1>1, <1>3 DEF WriteHeader, KeyOf
<1>5. /\ key \o len \in Seq(Bytes) /\ Len(key \o len) = Len(key) + Len(len)
      /\ \A i \in 1 .. Len(key) : (key \o len)[i] = key[i]
  BY ONLY key \in Seq(Bytes), len \in Seq(Bytes)
<1>6. PICK header \in Seq(Bytes) : header = key \o len
  BY <1>5
<1>7. Len(header) = 20 /\ header[12] = 2 /\ header[13] = Kind2[msg.kind]
  <2>1. Len(header) = 20
    BY <1>1, <1>3, <1>5, <1>6
  <2>2. 12 \in 1 .. 16 /\ 13 \in 1 .. 16
    OBVIOUS
  <2>3. header[12] = key[12] /\ header[13] = key[13]
    BY <1>1, <1>5, <1>6, <2>2
  <2>4. QED
    BY <1>1, <2>1, <2>3
<1>8. HeaderLength(header) = GetPayloadSize(msg)
  <2>1. HasAt(header, Len(key) + 1, len)
    BY <1>6, HasMore
  <2>2. PICK at \in Nat \ {0} : at = Len(key) + 1 /\ at = 17
    BY <1>1
  <2>3. HasAt(header, at, WriteBER4(GetPayloadSize(msg)))
    BY <1>3, <2>1, <2>2
  <2>4. ReadBER4(header, at) = GetPayloadSize(msg)
    BY <1>2, <2>3, BER4Is
  <2>5. QED
    BY <2>2, <2>4 DEF HeaderLength
<1>9. CreatedKinds(header) = {k \in FactoryKinds : Kind2[msg.kind] = Kind2[k]}
  BY <1>7 DEF CreatedKinds
<1>10. FactoryKinds = DOMAIN Class \ LostKinds /\ msg.kind \in DOMAIN Class
  BY KindsAre DEF FactoryKinds, LostKinds, IsMessage
<1>11. \A k \in DOMAIN Class : Kind2[msg.kind] = Kind2[k] <=> k = msg.kind
  BY <1>10, KindsAre
<1>12. CreatedKinds(header) = IF msg.kind \in LostKinds THEN {} ELSE {msg.kind}
  BY <1>9, <1>10, <1>11
<1>13. QED
  BY <1>4, <1>6, <1>7, <1>8, <1>12

\* What is written of a message: as many bytes as were computed.  Of one that counts items
\* it does not have nothing is ever written; as many zeros stand for its payload.
Payload(msg) ==
  IF ItemsAreCounted(msg) THEN WritePayload(msg) ELSE [i \in 1 .. GetPayloadSize(msg) |-> 0]

Frame(msg) == WriteHeader(msg) \o Payload(msg)

LEMMA FrameIs ==
  ASSUME NEW msg, IsMessage(msg)
  PROVE  /\ Payload(msg) \in Seq(Bytes) /\ Len(Payload(msg)) = GetPayloadSize(msg)
         /\ Frame(msg) \in Seq(Bytes) /\ Len(Frame(msg)) = GetMessageSize(msg)
         /\ GetPayloadSize(msg) \in Nat /\ GetMessageSize(msg) \in Nat /\ GetMessageSize(msg) >= 20
<1>1. ASSUME ItemsAreCounted(msg)
      PROVE  Payload(msg) \in Seq(Bytes) /\ Len(Payload(msg)) = GetPayloadSize(msg)
  <2>1. PICK c : c = Class[msg.kind]
    OBVIOUS
  <2>2. PICK ends : LaidOut(msg, c, ends)
    BY <1>1, <2>1, PayloadIsLaidOut
  <2>3. WritePayload(msg) \in Seq(Bytes) /\ Len(WritePayload(msg)) = GetPayloadSize(msg)
    BY <2>2 DEF LaidOut
  <2>4. Payload(msg) = WritePayload(msg)
    BY <1>1, Zenon DEF Payload
  <2>5. QED
    BY ONLY <2>3, <2>4
<1>2. ASSUME ~ItemsAreCounted(msg)
      PROVE  Payload(msg) \in Seq(Bytes) /\ Len(Payload(msg)) = GetPayloadSize(msg)
  <2>1. PICK n \in Nat : n = GetPayloadSize(msg)
    BY LengthsAre DEF IsMessage
  <2>2. 0 \in Bytes
    BY BytesAre
  <2>3. \A S : \A x \in S : [i \in 1 .. n |-> x] \in Seq(S) /\ Len([i \in 1 .. n |-> x]) = n
    OBVIOUS
  <2>4. Payload(msg) = [i \in 1 .. n |-> 0]
    BY <1>2, <2>1 DEF Payload
  <2>5. [i \in 1 .. n |-> 0] \in Seq(Bytes) /\ Len([i \in 1 .. n |-> 0]) = n
    BY <2>2, <2>3, Zenon
  <2>6. QED
    BY ONLY <2>1, <2>4, <2>5
<1>3. PICK payload \in Seq(Bytes) : payload = Payload(msg) /\ Len(payload) = GetPayloadSize(msg)
  BY <1>1, <1>2
<1>4. PICK header \in Seq(Bytes) : header = WriteHeader(msg) /\ Len(header) = 20
  BY HeaderIs
<1>5. header \o payload \in Seq(Bytes) /\ Len(header \o payload) = Len(header) + Len(payload)
      /\ Len(payload) \in Nat
  BY ONLY header \in Seq(Bytes), payload \in Seq(Bytes)
<1>6. Frame(msg) = header \o payload
  BY <1>3, <1>4 DEF Frame
<1>7. GetMessageSize(msg) = 20 + GetPayloadSize(msg)
  BY DEF GetMessageSize, headerSize
<1>8. QED
  BY <1>3, <1>4, <1>5, <1>6, <1>7

\* Messages as the wire has them, and as the session keeps those it created.
Stream(messages) == FlattenSeq([i \in DOMAIN messages |-> Frame(messages[i])])

LEMMA StreamIs ==
  ASSUME NEW s \in Seq(Sendable)
  PROVE  /\ Stream(s) \in Seq(Bytes) /\ Stream(<<>>) = <<>>
         /\ \A msg \in Sendable : Stream(Append(s, msg)) = Stream(s) \o Frame(msg)
         /\ s # <<>> => Stream(s) = Frame(Head(s)) \o Stream(Tail(s))
<1> DEFINE f == [msg \in Sendable |-> Frame(msg)]
<1>1. f \in [Sendable -> Seq(Bytes)] /\ \A msg \in Sendable : f[msg] = Frame(msg)
  BY SendableAreMessages, FrameIs
<1>2. \A t \in Seq(Sendable) : Stream(t) = Spread(f, t)
  <2>1. ASSUME NEW t \in Seq(Sendable)
        PROVE  [i \in DOMAIN t |-> Frame(t[i])] = [i \in DOMAIN t |-> f[t[i]]]
    OBVIOUS
  <2>2. QED
    BY <2>1 DEF Stream, Spread
<1> HIDE DEF f
<1>3. /\ Spread(f, s) \in Seq(Bytes) /\ Spread(f, <<>>) = <<>>
      /\ \A x \in Sendable : Spread(f, Append(s, x)) = Spread(f, s) \o f[x]
      /\ s # <<>> => Spread(f, s) = f[Head(s)] \o Spread(f, Tail(s))
  <2>1. PICK M : M = Sendable
    OBVIOUS
  <2>2. PICK S : S = Bytes
    OBVIOUS
  <2>3. f \in [M -> Seq(S)] /\ s \in Seq(M)
    BY <1>1, <2>1, <2>2
  <2>4. SpreadsOut(f, s, M, S)
    BY ONLY <2>3, SpreadIs
  <2>5. QED
    BY ONLY <2>1, <2>2, <2>4 DEF SpreadsOut
<1>4. /\ <<>> \in Seq(Sendable) /\ \A x \in Sendable : Append(s, x) \in Seq(Sendable)
      /\ s # <<>> => Head(s) \in Sendable /\ Tail(s) \in Seq(Sendable)
  OBVIOUS
<1>5. QED
  BY <1>1, <1>2, <1>3, <1>4

LEMMA ArrivesIs == \A msg \in Sendable : Arrives(msg) \in Seq(Sendable)
  BY DEF Arrives

LEMMA ArrivingIs ==
  ASSUME NEW s \in Seq(Sendable)
  PROVE  /\ Arriving(s) \in Seq(Sendable) /\ Arriving(<<>>) = <<>>
         /\ \A msg \in Sendable : Arriving(Append(s, msg)) = Arriving(s) \o Arrives(msg)
         /\ s # <<>> => Arriving(s) = Arrives(Head(s)) \o Arriving(Tail(s))
<1> DEFINE f == [msg \in Sendable |-> Arrives(msg)]
<1>1. f \in [Sendable -> Seq(Sendable)] /\ \A msg \in Sendable : f[msg] = Arrives(msg)
  BY ArrivesIs
<1>2. \A t \in Seq(Sendable) : Arriving(t) = Spread(f, t)
  <2>1. ASSUME NEW t \in Seq(Sendable)
        PROVE  [i \in DOMAIN t |-> Arrives(t[i])] = [i \in DOMAIN t |-> f[t[i]]]
    OBVIOUS
  <2>2. QED
    BY <2>1 DEF Arriving, Spread
<1> HIDE DEF f
<1>3. /\ Spread(f, s) \in Seq(Sendable) /\ Spread(f, <<>>) = <<>>
      /\ \A x \in Sendable : Spread(f, Append(s, x)) = Spread(f, s) \o f[x]
      /\ s # <<>> => Spread(f, s) = f[Head(s)] \o Spread(f, Tail(s))
  <2>1. PICK M : M = Sendable
    OBVIOUS
  <2>2. PICK S : S = Sendable
    OBVIOUS
  <2>3. f \in [M -> Seq(S)] /\ s \in Seq(M)
    BY <1>1, <2>1, <2>2
  <2>4. SpreadsOut(f, s, M, S)
    BY ONLY <2>3, SpreadIs
  <2>5. QED
    BY ONLY <2>1, <2>2, <2>4 DEF SpreadsOut
<1>4. /\ <<>> \in Seq(Sendable) /\ \A x \in Sendable : Append(s, x) \in Seq(Sendable)
      /\ s # <<>> => Head(s) \in Sendable /\ Tail(s) \in Seq(Sendable)
  OBVIOUS
<1>5. QED
  BY <1>1, <1>2, <1>3, <1>4

\* What a step does to the sequences of the invariant below.
LEMMA MovesOver ==
  ASSUME NEW S, NEW a \in Seq(S), NEW x \in S, NEW b \in Seq(S)
  PROVE  /\ Append(a, x) \in Seq(S) /\ <<x>> \o b \in Seq(S)
         /\ Append(a, x) \o b = a \o (<<x>> \o b)
         /\ Head(<<x>> \o b) = x /\ Tail(<<x>> \o b) = b /\ <<x>> \o b # <<>>
<1>1. <<x>> \in Seq(S) /\ Append(a, x) = a \o <<x>> /\ Append(a, x) \in Seq(S)
  BY PushIs
<1>2. (a \o <<x>>) \o b = a \o (<<x>> \o b)
  BY <1>1, JoinsInAnyOrder
<1>3. /\ <<x>> \o b \in Seq(S) /\ Head(<<x>> \o b) = x /\ <<x>> \o b # <<>>
      /\ Len(<<x>> \o b) = Len(b) + 1 /\ \A i \in 1 .. Len(b) : (<<x>> \o b)[i + 1] = b[i]
  BY <1>1
<1>4. PICK c \in Seq(S) : c = <<x>> \o b
  BY <1>3
<1>5. c # <<>> /\ Len(c) = Len(b) + 1 /\ Len(b) \in Nat /\ \A i \in 1 .. Len(b) : c[i + 1] = b[i]
  BY <1>3, <1>4
<1>6. PICK t \in Seq(S) :
        t = Tail(c) /\ Len(t) = Len(c) - 1 /\ \A i \in 1 .. Len(t) : t[i] = c[i + 1]
  <2>1. /\ Tail(c) \in Seq(S) /\ Len(Tail(c)) = Len(c) - 1
        /\ \A i \in 1 .. Len(Tail(c)) : Tail(c)[i] = c[i + 1]
    BY <1>5, HeadTailProperties
  <2>2. QED
    BY <2>1, Zenon
<1>7. Len(t) = Len(b)
  BY <1>5, <1>6
<1>8. \A i \in 1 .. Len(t) : t[i] = b[i]
  BY <1>5, <1>6, <1>7
<1>9. t = b
  BY <1>7, <1>8, SeqEqual
<1>10. QED
  BY <1>1, <1>2, <1>3, <1>4, <1>6, <1>9

PutsBehind(S, a, b, c, p) ==
  a \o (b \o (c \o p)) = (a \o (b \o c)) \o p /\ a \o (b \o c) \in Seq(S)

LEMMA PutOne ==
  ASSUME NEW S, NEW a, NEW b, NEW c, NEW p,
         a \in Seq(S), b \in Seq(S), c \in Seq(S), p \in Seq(S)
  PROVE  PutsBehind(S, a, b, c, p)
<1>1. PICK d : d \in Seq(S) /\ d = b \o c
  <2>1. b \o c \in Seq(S)
    BY ONLY b \in Seq(S), c \in Seq(S)
  <2>2. QED
    BY ONLY <2>1
<1>2. b \o (c \o p) = d \o p
  BY ONLY <1>1, b \in Seq(S), c \in Seq(S), p \in Seq(S), JoinsInAnyOrder
<1>3. d \in Seq(S)
  BY <1>1, Zenon
<1>4. (a \o d) \o p = a \o (d \o p) /\ a \o d \in Seq(S)
  BY ONLY <1>3, a \in Seq(S), p \in Seq(S), JoinsInAnyOrder
<1>5. QED
  BY <1>1, <1>2, <1>4, Zenon DEF PutsBehind

PutsAfter(a, b, c, p, r) == (a \o (b \o (c \o p))) \o r = (a \o (b \o c)) \o (p \o r)

LEMMA PutBehind ==
  ASSUME NEW S, NEW a, NEW b, NEW c, NEW p, NEW r,
         a \in Seq(S), b \in Seq(S), c \in Seq(S), p \in Seq(S), r \in Seq(S)
  PROVE  PutsAfter(a, b, c, p, r)
<1>1. PICK e : e = a \o (b \o c)
  OBVIOUS
<1>2. a \o (b \o (c \o p)) = e \o p /\ e \in Seq(S)
  <2>1. PutsBehind(S, a, b, c, p)
    BY PutOne
  <2>2. QED
    BY <1>1, <2>1, Zenon DEF PutsBehind
<1>3. e \in Seq(S)
  BY <1>2, Zenon
<1>4. (e \o p) \o r = e \o (p \o r)
  BY ONLY <1>3, p \in Seq(S), r \in Seq(S), JoinsInAnyOrder
<1>5. QED
  BY <1>1, <1>2, <1>4, Zenon DEF PutsAfter

TakesOff(a, b, c, m, h, p, t) == a = h /\ b = p /\ c \o m = t

LEMMA TakenOff ==
  ASSUME NEW S, NEW a, NEW b, NEW c, NEW m, NEW h, NEW p, NEW t,
         a \in Seq(S), b \in Seq(S), c \in Seq(S), m \in Seq(S),
         h \in Seq(S), p \in Seq(S), t \in Seq(S),
         (a \o (b \o c)) \o m = (h \o p) \o t, Len(a) = Len(h), a = h => Len(b) = Len(p)
  PROVE  TakesOff(a, b, c, m, h, p, t)
<1>1. PICK d : d \in Seq(S) /\ d = b \o c
  <2>1. b \o c \in Seq(S)
    BY ONLY b \in Seq(S), c \in Seq(S)
  <2>2. QED
    BY ONLY <2>1
<1>2. PICK e : e \in Seq(S) /\ e = c \o m
  <2>1. c \o m \in Seq(S)
    BY ONLY c \in Seq(S), m \in Seq(S)
  <2>2. QED
    BY ONLY <2>1
<1>3. PICK f : f \in Seq(S) /\ f = b \o e
  <2>1. b \o e \in Seq(S)
    BY ONLY <1>2, b \in Seq(S)
  <2>2. QED
    BY ONLY <2>1
<1>4. PICK g : g \in Seq(S) /\ g = p \o t
  <2>1. p \o t \in Seq(S)
    BY ONLY p \in Seq(S), t \in Seq(S)
  <2>2. QED
    BY ONLY <2>1
<1>5. (a \o d) \o m = a \o (d \o m)
  <2>1. d \in Seq(S)
    BY <1>1, Zenon
  <2>2. QED
    BY ONLY <2>1, a \in Seq(S), m \in Seq(S), JoinsInAnyOrder
<1>6. d \o m = f
  <2>1. (b \o c) \o m = b \o (c \o m)
    BY ONLY b \in Seq(S), c \in Seq(S), m \in Seq(S), JoinsInAnyOrder
  <2>2. QED
    BY <1>1, <1>2, <1>3, <2>1, Zenon
<1>7. (h \o p) \o t = h \o g
  <2>1. (h \o p) \o t = h \o (p \o t)
    BY ONLY h \in Seq(S), p \in Seq(S), t \in Seq(S), JoinsInAnyOrder
  <2>2. QED
    BY <1>4, <2>1, Zenon
<1>8. a \o f = h \o g
  BY <1>1, <1>5, <1>6, <1>7, Zenon
<1>9. a = h /\ f = g
  BY ONLY <1>3, <1>4, <1>8, a \in Seq(S), h \in Seq(S), Len(a) = Len(h), SameFront
<1>10. b \o e = p \o t /\ Len(b) = Len(p)
  BY <1>3, <1>4, <1>9, Zenon
<1>11. b = p /\ e = t
  BY ONLY <1>2, <1>10, b \in Seq(S), p \in Seq(S), t \in Seq(S), SameFront
<1>12. QED
  BY ONLY <1>2, <1>9, <1>11, Zenon DEF TakesOff

LEMMA NoneIs == \A S : \A s \in Seq(S) : <<>> \in Seq(S) /\ <<>> \o s = s /\ s \o <<>> = s
OBVIOUS

LEMMA FewAre ==
  \A S : /\ <<>> \in Seq(S) /\ Len(<<>>) = 0
        /\ \A x \in S : <<x>> \in Seq(S) /\ Len(<<x>>) = 1 /\ <<x>>[1] = x
OBVIOUS

LEMMA TailHas ==
  ASSUME NEW T, NEW q \in Seq(T), q # <<>>
  PROVE  /\ 1 \in DOMAIN q /\ Head(q) = q[1] /\ Head(q) \in T /\ Tail(q) \in Seq(T)
         /\ \A i \in DOMAIN Tail(q) : i + 1 \in DOMAIN q /\ Tail(q)[i] = q[i + 1]
<1>1. PICK t : t = Tail(q)
  OBVIOUS
<1>2. /\ t \in Seq(T) /\ Len(t) = Len(q) - 1 /\ Head(q) \in T
      /\ \A i \in 1 .. Len(t) : t[i] = q[i + 1]
  BY <1>1, HeadTailProperties
<1>3. DOMAIN t = 1 .. Len(t) /\ DOMAIN q = 1 .. Len(q) /\ Len(q) \in Nat /\ Len(q) # 0 /\ Head(q) = q[1]
  BY <1>2
<1>4. 1 \in DOMAIN q /\ \A i \in DOMAIN t : i + 1 \in DOMAIN q
  BY <1>2, <1>3
<1>5. QED
  BY <1>1, <1>2, <1>3, <1>4

LEMMA AppendHas ==
  ASSUME NEW T, NEW q \in Seq(T), NEW x \in T
  PROVE  /\ Append(q, x) \in Seq(T)
         /\ \A i \in DOMAIN Append(q, x) :
              Append(q, x)[i] = x \/ (i \in DOMAIN q /\ Append(q, x)[i] = q[i])
<1>1. Append(q, x) \in Seq(T)
  BY AppendProperties
<1>2. \A i \in 1 .. Len(q) + 1 : i = Len(q) + 1 \/ i \in 1 .. Len(q)
  OBVIOUS
<1>3. /\ Append(q, x)[Len(q) + 1] = x /\ Len(Append(q, x)) = Len(q) + 1
      /\ \A i \in 1 .. Len(q) : Append(q, x)[i] = q[i]
  BY AppendProperties
<1>4. DOMAIN Append(q, x) = 1 .. Len(q) + 1 /\ DOMAIN q = 1 .. Len(q)
  BY <1>1, <1>3
<1>5. QED
  BY <1>1, <1>2, <1>3, <1>4, Zenon

\* The kinds and payloads of messages.
Packs(messages) ==
  [i \in DOMAIN messages |-> [kind |-> messages[i].kind, payload |-> Payload(messages[i])]]

LEMMA PacksAre ==
  ASSUME NEW s \in Seq(Sendable)
  PROVE  /\ Packs(<<>>) = <<>>
         /\ DOMAIN Packs(s) = 1 .. Len(s) /\ Len(Packs(s)) = Len(s)
         /\ \A msg \in Sendable :
              Packs(Append(s, msg)) = Append(Packs(s), [kind |-> msg.kind, payload |-> Payload(msg)])
<1>1. Packs(<<>>) = <<>>
  BY DEF Packs
<1>2. DOMAIN Packs(s) = 1 .. Len(s) /\ Len(Packs(s)) = Len(s)
  BY DEF Packs
<1>3. ASSUME NEW msg \in Sendable
      PROVE  Packs(Append(s, msg)) = Append(Packs(s), [kind |-> msg.kind, payload |-> Payload(msg)])
  BY DEF Packs
<1>4. QED
  BY <1>1, <1>2, <1>3

-----------------------------------------------------------------------------
(* The invariant of the channel.                                           *)

\* The queue and the buffer of the client: a write is of the whole of the first message.
WriterOK ==
  /\ writeMsgs \in Seq(Sendable) /\ writeBufferSize \in Nat
  /\ posted \in Seq(Seq(Sendable)) /\ \A i \in DOMAIN posted : Len(posted[i]) <= 1
  /\ sent \in Seq(Sendable)
  /\ writeResult \in {"none", "pending", "ok", "error"}
  /\ writeResult # "none" => writeMsgs # <<>>
  /\ writeResult = "pending" =>
       writeBuffer = Frame(Head(writeMsgs)) /\ Len(writeBuffer) <= writeBufferSize

\* The buffers of the session: a payload is read behind its header.
ReaderOK ==
  /\ readHeader \in Seq(Bytes) /\ readPayload \in Seq(Bytes) /\ readPayloadBufferSize \in Nat
  /\ peer \in {"unopened", "open", "closed"} /\ reading \in {"nothing", "header", "body"}
  /\ reading = "nothing" <=> peer # "open"
  /\ reading = "nothing" => readResult = "none"
  /\ peer = "unopened" => readHeader = <<>> /\ readPayload = <<>>
  /\ reading = "header" =>
       readPayload = <<>> /\ IF readResult = "ok" THEN Len(readHeader) = 20 ELSE readHeader = <<>>
  /\ reading = "body" =>
       /\ Len(readHeader) = 20 /\ HeaderLength(readHeader) <= readPayloadBufferSize
       /\ IF readResult = "ok" THEN Len(readPayload) = HeaderLength(readHeader)
          ELSE readPayload = <<>>

\* The bytes the session has not made a message of.
Coming == readHeader \o (readPayload \o wire)

\* The messages of which no byte was sent, and those that are not created yet when
\* `under` are under way.
Unwritten ==
  IF writeMsgs = <<>> \/ writeResult = "pending" THEN writeMsgs ELSE Tail(writeMsgs)

Rest(under) == under \o (Unwritten \o FlattenSeq(posted))

\* The bytes are those of the messages under way, but for what a write that failed left
\* missing, and the messages that were created are those of `done`.
Flows(under, missing, done) ==
  /\ writeMsgs = <<>> \/ writeResult \in {"pending", "ok"} => missing = <<>>
  /\ peer # "closed" => Coming \o missing = Stream(under)
  /\ Delivered = done \o Arriving(Rest(under))
  /\ received = Packs(done)

ChannelInv ==
  /\ WriterOK /\ ReaderOK /\ wire \in Seq(Bytes)
  /\ \E under \in Seq(Sendable), missing \in Seq(Bytes), done \in Seq(Sendable) :
       Flows(under, missing, done)

LEMMA InitChannelInv == Init => ChannelInv
<1> SUFFICES ASSUME Init PROVE ChannelInv
  OBVIOUS
<1>1. /\ writeMsgs = <<>> /\ posted = <<>> /\ sent = <<>> /\ writeResult = "none"
      /\ writeBufferSize = 40 /\ wire = <<>> /\ readHeader = <<>> /\ readPayload = <<>>
      /\ readPayloadBufferSize = 20 /\ received = <<>>
      /\ peer = "unopened" /\ reading = "nothing" /\ readResult = "none"
  BY DEF Init, headerSize
<1>2. \A S : <<>> \in Seq(S)
  OBVIOUS
<1>3. WriterOK
  BY <1>1, <1>2 DEF WriterOK
<1>4. ReaderOK
  BY <1>1, <1>2 DEF ReaderOK
<1>5. <<>> \o <<>> = <<>>
  OBVIOUS
<1>6. Stream(<<>>) = <<>> /\ Arriving(<<>>) = <<>> /\ Packs(<<>>) = <<>>
  BY <1>2, StreamIs, ArrivingIs, PacksAre
<1>7. Coming = <<>> /\ Unwritten = <<>> /\ FlattenSeq(posted) = <<>>
  BY <1>1, <1>5, FlattenNone DEF Coming, Unwritten
<1>8. Rest(<<>>) = <<>>
  BY <1>5, <1>7 DEF Rest
<1>9. Flows(<<>>, <<>>, <<>>)
  BY <1>1, <1>5, <1>6, <1>7, <1>8 DEF Flows, Delivered
<1>10. QED
  BY <1>1, <1>2, <1>3, <1>4, <1>9 DEF ChannelInv

LEMMA RestIs ==
  ASSUME WriterOK
  PROVE  /\ Unwritten \in Seq(Sendable) /\ FlattenSeq(posted) \in Seq(Sendable)
         /\ \A under \in Seq(Sendable) : Rest(under) \in Seq(Sendable)
<1>1. Unwritten \in Seq(Sendable)
  BY DEF WriterOK, Unwritten
<1>2. FlattenSeq(posted) \in Seq(Sendable)
  <2>1. PICK p \in Seq(Seq(Sendable)) : p = posted
    BY DEF WriterOK
  <2>2. QED
    BY <2>1, FlattenType
<1>3. \A S : \A u, v, w \in Seq(S) : u \o (v \o w) \in Seq(S)
  OBVIOUS
<1>4. QED
  BY <1>1, <1>2, <1>3 DEF Rest

\* The steps of the rest of the client leave the channel alone.
channelVars == <<posted, sent, writeVars, wire, sessionVars>>

LEMMA AsideKeeps == ChannelInv /\ UNCHANGED channelVars => ChannelInv'
<1> SUFFICES ASSUME ChannelInv, UNCHANGED channelVars PROVE ChannelInv'
  OBVIOUS
<1>1. /\ UNCHANGED <<posted, sent, writeMsgs, writeBuffer, writeBufferSize, writeResult, wire>>
      /\ UNCHANGED <<peer, reading, readResult, readHeader, readPayload,
                     readPayloadBufferSize, received>>
  BY DEF channelVars, writeVars, sessionVars, readVars
<1>2. WriterOK' /\ ReaderOK'
  BY <1>1 DEF ChannelInv, WriterOK, ReaderOK
<1>3. \A under, missing, done : Flows(under, missing, done) => Flows(under, missing, done)'
  BY <1>1 DEF Flows, Coming, Delivered, Rest, Unwritten
<1>4. QED
  BY <1>1, <1>2, <1>3 DEF ChannelInv

LEMMA OthersAreAside ==
  ASSUME \/ ConnectCompletes \/ HandleConnect \/ Notify \/ Returns \/ HandleReadError
         \/ WriteFaults \/ ObserverCall \/ Lose
  PROVE  UNCHANGED channelVars
<1>1. ConnectCompletes => UNCHANGED channelVars
  BY DEF ConnectCompletes, channelVars, history
<1>2. HandleConnect => UNCHANGED channelVars
  BY DEF HandleConnect, channelVars, history
<1>3. Notify => UNCHANGED channelVars
  BY DEF Notify, channelVars, clientVars, history
<1>4. Returns => UNCHANGED channelVars
  BY DEF Returns, channelVars, history
<1>5. HandleReadError => UNCHANGED channelVars
  BY DEF HandleReadError, channelVars, history
<1>6. ObserverCall => UNCHANGED channelVars
  BY DEF ObserverCall, channelVars, clientVars
<1>7. Lose => UNCHANGED channelVars
  BY DEF Lose, channelVars, clientVars
<1>8. WriteFaults => UNCHANGED channelVars
  BY DEF WriteFaults, channelVars, history
<1>9. QED
  BY <1>1, <1>2, <1>3, <1>4, <1>5, <1>6, <1>7, <1>8

-----------------------------------------------------------------------------
(* What the user's thread and the client's do to it.                       *)

LEMMA PrefixGrows ==
  ASSUME NEW S, NEW s \in Seq(S), NEW t \in Seq(S), IsStrictPrefix(s, t)
  PROVE  Len(s) + 1 \in 1 .. Len(t) /\ SubSeq(t, 1, Len(s) + 1) = Append(s, t[Len(s) + 1])
<1>1. PICK n \in Nat : n = Len(s)
  OBVIOUS
<1>2. n <= Len(t) /\ SubSeq(s, 1, n) = SubSeq(t, 1, n) /\ s # t /\ Len(t) \in Nat
  BY <1>1 DEF IsStrictPrefix, IsPrefix
<1>3. SubSeq(s, 1, n) = s
  BY <1>1, SubSeqFull
<1>4. n # Len(t)
  <2>1. n = Len(t) => SubSeq(t, 1, n) = t
    BY SubSeqFull
  <2>2. QED
    BY <1>2, <1>3, <2>1
<1>5. 1 \in 1 .. Len(t) /\ n + 1 \in 1 .. Len(t) /\ (n + 1) - 1 = n
  BY <1>2, <1>4
<1>6. SubSeq(t, 1, n + 1) = SubSeq(t, 1, (n + 1) - 1) \o <<t[n + 1]>>
  BY <1>5, SubSeqRecursiveSecond
<1>7. SubSeq(t, 1, n + 1) = s \o <<t[n + 1]>>
  BY <1>2, <1>3, <1>5, <1>6, Zenon
<1>8. t[n + 1] \in S
  BY <1>5
<1>9. Append(s, t[n + 1]) = s \o <<t[n + 1]>>
  BY <1>8, AppendIsConcat
<1>10. QED
  BY <1>1, <1>5, <1>7, <1>9

LEMMA SendKeeps == ASSUME ChannelInv, Send PROVE ChannelInv'
<1>1. PICK script \in Scripts :
        /\ IsStrictPrefix(sent, script)
        /\ sent' = SubSeq(script, 1, Len(sent) + 1)
        /\ posted' = Append(posted, <<script[Len(sent) + 1]>>)
  BY DEF Send
<1>2. /\ UNCHANGED <<writeMsgs, writeBuffer, writeBufferSize, writeResult, wire>>
      /\ UNCHANGED <<peer, reading, readResult, readHeader, readPayload,
                     readPayloadBufferSize, received>>
  BY DEF Send, writeVars, sessionVars, readVars
<1>3. PICK s \in Seq(Sendable) : s = sent
  BY DEF ChannelInv, WriterOK
<1>4. PICK msg \in Sendable : sent' = Append(s, msg) /\ posted' = Append(posted, <<msg>>)
  <2>1. script \in Seq(Sendable)
    <3>1. script \in Seq(ToSet(script)) /\ ToSet(script) \subseteq Sendable
      BY MessagesAssumption DEF Sendable
    <3>2. \A Q, R : Q \subseteq R => \A q \in Seq(Q) : q \in Seq(R)
      OBVIOUS
    <3>3. QED
      BY <3>1, <3>2, Zenon
  <2>2. Len(s) + 1 \in 1 .. Len(script) /\ SubSeq(script, 1, Len(s) + 1) = Append(s, script[Len(s) + 1])
    BY <1>1, <1>3, <2>1, PrefixGrows
  <2>3. script[Len(s) + 1] \in Sendable
    BY <2>1, <2>2
  <2>4. QED
    BY <1>1, <1>3, <2>2, <2>3
<1>5. PICK one : one \in Seq(Sendable) /\ one = <<msg>> /\ Len(one) = 1
  BY FewAre
<1>6. PICK p \in Seq(Seq(Sendable)) : p = posted /\ \A i \in DOMAIN p : Len(p[i]) <= 1
  BY DEF ChannelInv, WriterOK
<1>7. posted' = Append(p, one)
  BY <1>4, <1>5, <1>6
<1>8. WriterOK'
  <2>1. posted' \in Seq(Seq(Sendable)) /\ \A i \in DOMAIN posted' : Len(posted'[i]) <= 1
    <3>1. PICK T : T = Seq(Sendable)
      OBVIOUS
    <3>2. p \in Seq(T) /\ one \in T
      BY <1>5, <1>6, <3>1
    <3>3. /\ Append(p, one) \in Seq(T)
          /\ \A i \in DOMAIN Append(p, one) :
               Append(p, one)[i] = one \/ (i \in DOMAIN p /\ Append(p, one)[i] = p[i])
      BY ONLY <3>2, AppendHas
    <3>4. Len(one) <= 1
      BY <1>5
    <3>5. QED
      BY <1>6, <1>7, <3>1, <3>3, <3>4, Zenon
  <2>2. sent' \in Seq(Sendable)
    BY <1>4
  <2>3. QED
    BY <1>2, <2>1, <2>2 DEF ChannelInv, WriterOK
<1>9. ReaderOK'
  BY <1>2 DEF ChannelInv, ReaderOK
<1>10. PICK under, missing, done :
         /\ under \in Seq(Sendable) /\ missing \in Seq(Bytes) /\ done \in Seq(Sendable)
         /\ Flows(under, missing, done)
  BY DEF ChannelInv
<1>11. PICK r : r \in Seq(Sendable) /\ r = Rest(under)
  <2>1. Rest(under) \in Seq(Sendable)
    BY <1>10, RestIs DEF ChannelInv
  <2>2. QED
    BY <2>1, Zenon
<1>12. Rest(under)' = Append(r, msg)
  <2>1. PICK u, q : /\ u \in Seq(Sendable) /\ q \in Seq(Sendable)
                    /\ u = Unwritten /\ q = FlattenSeq(p)
    BY <1>6, RestIs DEF ChannelInv
  <2>2. FlattenSeq(posted') = q \o one
    <3>1. one \in Seq(Sendable)
      BY <1>5, Zenon
    <3>2. FlattenSeq(Append(p, one)) = FlattenSeq(p) \o one
      BY ONLY <3>1, p \in Seq(Seq(Sendable)), FlattenPush
    <3>3. QED
      BY <1>7, <2>1, <3>2, Zenon
  <2>3. Unwritten' = u
    BY <1>2, <2>1 DEF Unwritten
  <2>4. Rest(under)' = under \o (u \o (q \o one)) /\ r = under \o (u \o q)
    BY <1>6, <1>11, <2>1, <2>2, <2>3 DEF Rest
  <2>5. under \o (u \o (q \o one)) = (under \o (u \o q)) \o one
    <3>1. under \in Seq(Sendable) /\ u \in Seq(Sendable) /\ q \in Seq(Sendable) /\ one \in Seq(Sendable)
      BY <1>5, <1>10, <2>1, Zenon
    <3>2. PutsBehind(Sendable, under, u, q, one)
      BY ONLY <3>1, PutOne
    <3>3. QED
      BY <3>2, Zenon DEF PutsBehind
  <2>6. Append(r, msg) = r \o <<msg>>
    BY PushIs
  <2>7. QED
    BY <1>5, <2>4, <2>5, <2>6, Zenon
<1>13. Delivered' = done \o Arriving(Rest(under)')
  <2>1. PICK a, x : /\ a \in Seq(Sendable) /\ x \in Seq(Sendable)
                    /\ a = Arriving(r) /\ x = Arrives(msg)
    <3>1. Arriving(r) \in Seq(Sendable) /\ Arrives(msg) \in Seq(Sendable)
      BY <1>11, ArrivingIs, ArrivesIs
    <3>2. QED
      BY <3>1, Zenon
  <2>2. Delivered = done \o a
    BY <1>10, <1>11, <2>1 DEF Flows
  <2>3. Delivered' = (done \o a) \o x
    <3>1. Arriving(Append(s, msg)) = Arriving(s) \o Arrives(msg)
      BY ArrivingIs
    <3>2. Arriving(s) = done \o a
      BY <1>3, <2>2 DEF Delivered
    <3>3. Delivered' = Arriving(Append(s, msg))
      BY <1>4 DEF Delivered
    <3>4. QED
      BY <2>1, <3>1, <3>2, <3>3
  <2>4. Arriving(Append(r, msg)) = a \o x
    <3>1. Arriving(Append(r, msg)) = Arriving(r) \o Arrives(msg)
      BY <1>11, ArrivingIs
    <3>2. QED
      BY <2>1, <3>1, Zenon
  <2>5. (done \o a) \o x = done \o (a \o x)
    <3>1. done \in Seq(Sendable) /\ a \in Seq(Sendable) /\ x \in Seq(Sendable)
      BY <1>10, <2>1, Zenon
    <3>2. QED
      BY ONLY <3>1, JoinsInAnyOrder, SMTT(30)
  <2>6. QED
    BY <1>12, <2>3, <2>4, <2>5, Zenon
<1>14. Flows(under, missing, done)'
  BY <1>2, <1>10, <1>13 DEF Flows, Coming
<1>15. wire' \in Seq(Bytes)
  BY <1>2 DEF ChannelInv
<1>16. QED
  BY <1>8, <1>9, <1>10, <1>14, <1>15 DEF ChannelInv

\* What is left to be told of when the queue and the calls posted trade places.
LEMMA SameRestKeeps ==
  ASSUME ChannelInv, WriterOK',
         UNCHANGED <<wire, peer, reading, readResult, readHeader, readPayload,
                     readPayloadBufferSize, received, sent>>,
         Unwritten' \o FlattenSeq(posted') = Unwritten \o FlattenSeq(posted),
         (writeMsgs = <<>> \/ writeResult \in {"pending", "ok"})'
           => writeMsgs = <<>> \/ writeResult \in {"pending", "ok"}
  PROVE  ChannelInv'
<1>1. ReaderOK'
  BY DEF ChannelInv, ReaderOK
<1>2. \A under : Rest(under)' = Rest(under)
  BY DEF Rest
<1>3. \A under, missing, done : Flows(under, missing, done) => Flows(under, missing, done)'
  BY <1>2 DEF Flows, Coming, Delivered
<1>4. QED
  BY <1>1, <1>3 DEF ChannelInv

LEMMA CloseKeeps == ASSUME ChannelInv, Close PROVE ChannelInv'
<1>1. /\ posted' = Append(posted, <<>>) /\ UNCHANGED sent
      /\ UNCHANGED <<writeMsgs, writeBuffer, writeBufferSize, writeResult, wire>>
      /\ UNCHANGED <<peer, reading, readResult, readHeader, readPayload,
                     readPayloadBufferSize, received>>
  BY DEF Close, writeVars, sessionVars, readVars
<1>2. PICK p \in Seq(Seq(Sendable)) : p = posted /\ \A i \in DOMAIN p : Len(p[i]) <= 1
  BY DEF ChannelInv, WriterOK
<1>3. PICK none : none \in Seq(Sendable) /\ none = <<>> /\ Len(none) = 0
  <2>1. <<>> \in Seq(Sendable) /\ Len(<<>>) = 0
    BY FewAre
  <2>2. QED
    BY <2>1, Zenon
<1>4. posted' = Append(p, none)
  BY <1>1, <1>2, <1>3
<1>5. posted' \in Seq(Seq(Sendable)) /\ \A i \in DOMAIN posted' : Len(posted'[i]) <= 1
  <2>1. PICK T : T = Seq(Sendable)
    OBVIOUS
  <2>2. p \in Seq(T) /\ none \in T
    BY <1>2, <1>3, <2>1
  <2>3. /\ Append(p, none) \in Seq(T)
        /\ \A i \in DOMAIN Append(p, none) :
             Append(p, none)[i] = none \/ (i \in DOMAIN p /\ Append(p, none)[i] = p[i])
    BY ONLY <2>2, AppendHas
  <2>4. Len(none) <= 1
    BY <1>3
  <2>5. QED
    BY <1>2, <1>4, <2>1, <2>3, <2>4, Zenon
<1>6. WriterOK'
  BY <1>1, <1>5 DEF ChannelInv, WriterOK
<1>7. FlattenSeq(posted') = FlattenSeq(posted)
  <2>1. PICK q \in Seq(Sendable) : q = FlattenSeq(p)
    BY <1>2, RestIs DEF ChannelInv
  <2>2. FlattenSeq(Append(p, none)) = q \o none
    <3>1. none \in Seq(Sendable)
      BY <1>3, Zenon
    <3>2. FlattenSeq(Append(p, none)) = FlattenSeq(p) \o none
      BY ONLY <3>1, p \in Seq(Seq(Sendable)), FlattenPush
    <3>3. QED
      BY <2>1, <3>2, Zenon
  <2>3. q \o <<>> = q
    BY NoneIs
  <2>4. QED
    BY <1>2, <1>3, <1>4, <2>1, <2>2, <2>3
<1>8. Unwritten' = Unwritten
  BY <1>1 DEF Unwritten
<1>9. QED
  BY <1>1, <1>6, <1>7, <1>8, SameRestKeeps

LEMMA WriteStarts ==
  ASSUME NEW msg \in Sendable, WriterOK, StartWrite(msg)
  PROVE  /\ writeBuffer' = Frame(msg) /\ writeBufferSize' \in Nat
         /\ Len(writeBuffer') <= writeBufferSize' /\ writeResult' = "pending"
<1>1. PICK size \in Nat : size = GetMessageSize(msg) /\ Len(Frame(msg)) = size
  BY SendableAreMessages, FrameIs
<1>2. writeBuffer' = Frame(msg) /\ writeResult' = "pending"
  BY DEF StartWrite, Frame, Payload
<1>3. writeBufferSize' = IF size > writeBufferSize THEN size ELSE writeBufferSize
  BY <1>1 DEF StartWrite, GrowBuffer
<1>4. writeBufferSize \in Nat
  BY DEF WriterOK
<1>5. QED
  BY <1>1, <1>2, <1>3, <1>4

LEMMA CloseRuns ==
  ASSUME ChannelInv, posted # <<>>, Head(posted) = <<>>, posted' = Tail(posted),
         UNCHANGED <<writeVars, wire, sessionVars, sent>>
  PROVE  ChannelInv'
<1>1. /\ UNCHANGED <<writeMsgs, writeBuffer, writeBufferSize, writeResult, wire, sent>>
      /\ UNCHANGED <<peer, reading, readResult, readHeader, readPayload,
                     readPayloadBufferSize, received>>
  BY DEF writeVars, sessionVars, readVars
<1>2. PICK p \in Seq(Seq(Sendable)) : p = posted /\ \A i \in DOMAIN p : Len(p[i]) <= 1
  BY DEF ChannelInv, WriterOK
<1>3. PICK T : T = Seq(Sendable)
  OBVIOUS
<1>4. p \in Seq(T) /\ p # <<>> /\ Head(p) = <<>> /\ posted' = Tail(p)
  BY <1>2, <1>3
<1>5. Tail(p) \in Seq(T) /\ \A i \in DOMAIN Tail(p) : i + 1 \in DOMAIN p /\ Tail(p)[i] = p[i + 1]
  BY ONLY <1>4, TailHas
<1>6. WriterOK'
  <2>1. posted' \in Seq(Seq(Sendable)) /\ \A i \in DOMAIN posted' : Len(posted'[i]) <= 1
    BY <1>2, <1>3, <1>4, <1>5, Zenon
  <2>2. QED
    BY <1>1, <2>1 DEF ChannelInv, WriterOK
<1>7. FlattenSeq(posted') = FlattenSeq(posted)
  <2>1. FlattenSeq(p) = Head(p) \o FlattenSeq(Tail(p))
    BY <1>4, FlattenPop
  <2>2. Tail(p) \in Seq(Seq(Sendable))
    BY <1>3, <1>5, Zenon
  <2>3. FlattenSeq(Tail(p)) \in Seq(Sendable)
    BY ONLY <2>2, FlattenType
  <2>4. <<>> \o FlattenSeq(Tail(p)) = FlattenSeq(Tail(p))
    BY ONLY <2>3, NoneIs
  <2>5. QED
    BY <1>2, <1>4, <2>1, <2>4, Zenon
<1>8. Unwritten' = Unwritten
  BY <1>1 DEF Unwritten
<1>9. QED
  BY <1>1, <1>6, <1>7, <1>8, SameRestKeeps

LEMMA OneOnly ==
  ASSUME NEW S, NEW s \in Seq(S), Len(s) <= 1, NEW x \in ToSet(s)
  PROVE  s = <<x>> /\ x \in S
<1>1. PICK i \in 1 .. Len(s) : x = s[i]
  BY DEF ToSet
<1>2. Len(s) = 1 /\ i = 1
  <2>1. PICK n : n = Len(s)
    OBVIOUS
  <2>2. n \in Nat /\ n <= 1 /\ i \in 1 .. n
    BY <1>1, <2>1
  <2>3. n = 1 /\ i = 1
    BY ONLY <2>2
  <2>4. QED
    BY <2>1, <2>3
<1>3. x = s[1] /\ x \in S
  BY <1>1, <1>2
<1>4. PICK t : t \in Seq(S) /\ t = <<x>> /\ Len(t) = 1 /\ t[1] = x
  <2>1. <<x>> \in Seq(S) /\ Len(<<x>>) = 1 /\ <<x>>[1] = x
    BY <1>3, FewAre
  <2>2. QED
    BY <2>1, Zenon
<1>5. \A k \in 1 .. Len(s) : s[k] = t[k]
  BY <1>2, <1>3, <1>4
<1>6. s = t
  BY <1>2, <1>4, <1>5, SeqEqual
<1>7. QED
  BY <1>3, <1>4, <1>6

LEMMA WriteRuns ==
  ASSUME ChannelInv, posted # <<>>, posted' = Tail(posted), NEW msg \in ToSet(Head(posted)),
         DoWrite(msg), UNCHANGED <<wire, sessionVars, sent>>
  PROVE  ChannelInv'
<1>1. /\ UNCHANGED <<wire, sent>>
      /\ UNCHANGED <<peer, reading, readResult, readHeader, readPayload,
                     readPayloadBufferSize, received>>
  BY DEF sessionVars, readVars
<1>2. PICK p \in Seq(Seq(Sendable)) : p = posted /\ \A i \in DOMAIN p : Len(p[i]) <= 1
  BY DEF ChannelInv, WriterOK
<1>3. PICK T : T = Seq(Sendable)
  OBVIOUS
<1>4. p \in Seq(T) /\ p # <<>> /\ posted' = Tail(p) /\ msg \in ToSet(Head(p))
  BY <1>2, <1>3
<1>5. /\ 1 \in DOMAIN p /\ Head(p) = p[1] /\ Head(p) \in T /\ Tail(p) \in Seq(T)
      /\ \A i \in DOMAIN Tail(p) : i + 1 \in DOMAIN p /\ Tail(p)[i] = p[i + 1]
  BY ONLY <1>4, TailHas
<1>6. Head(p) = <<msg>> /\ msg \in Sendable
  <2>1. Head(p) \in Seq(Sendable) /\ Len(Head(p)) <= 1 /\ msg \in ToSet(Head(p))
    BY <1>2, <1>3, <1>4, <1>5, Zenon
  <2>2. QED
    BY ONLY <2>1, OneOnly
<1>7. PICK w \in Seq(Sendable) : w = writeMsgs /\ writeMsgs' = Append(w, msg)
  BY DEF ChannelInv, WriterOK, DoWrite
<1>8. Append(w, msg) \in Seq(Sendable) /\ Append(w, msg) # <<>>
  BY <1>6, AppendProperties
<1>9. posted' \in Seq(Seq(Sendable)) /\ \A i \in DOMAIN posted' : Len(posted'[i]) <= 1
  BY <1>2, <1>3, <1>4, <1>5, Zenon
<1>10. sent' \in Seq(Sendable)
  BY <1>1 DEF ChannelInv, WriterOK
<1>11. ASSUME w = <<>>
      PROVE  /\ WriterOK' /\ Unwritten' = Append(Unwritten, msg)
             /\ (writeMsgs = <<>> \/ writeResult \in {"pending", "ok"})'
                  => writeMsgs = <<>> \/ writeResult \in {"pending", "ok"}
  <2>1. StartWrite(msg)
    BY <1>7, <1>11 DEF DoWrite
  <2>2. /\ writeBuffer' = Frame(msg) /\ writeBufferSize' \in Nat
        /\ Len(writeBuffer') <= writeBufferSize' /\ writeResult' = "pending"
    BY <1>6, <2>1, WriteStarts DEF ChannelInv
  <2>3. Head(writeMsgs') = msg
    BY <1>6, <1>7, <1>11
  <2>4. writeMsgs' \in Seq(Sendable) /\ writeMsgs' # <<>>
    BY <1>7, <1>8, Zenon
  <2>5. WriterOK'
    BY <1>9, <1>10, <2>2, <2>3, <2>4 DEF WriterOK
  <2>6. Unwritten' = Append(Unwritten, msg)
    BY <1>7, <1>11, <2>2 DEF Unwritten
  <2>7. writeMsgs = <<>> \/ writeResult \in {"pending", "ok"}
    BY <1>7, <1>11
  <2>8. QED
    BY <2>5, <2>6, <2>7
<1>12. ASSUME w # <<>>
      PROVE  /\ WriterOK' /\ Unwritten' = Append(Unwritten, msg)
             /\ (writeMsgs = <<>> \/ writeResult \in {"pending", "ok"})'
                  => writeMsgs = <<>> \/ writeResult \in {"pending", "ok"}
  <2>1. UNCHANGED <<writeBuffer, writeBufferSize, writeResult>>
    BY <1>7, <1>12 DEF DoWrite
  <2>2. /\ Head(Append(w, msg)) = Head(w) /\ Tail(Append(w, msg)) = Append(Tail(w), msg)
    BY <1>12, HeadTailAppend
  <2>3. writeMsgs' \in Seq(Sendable) /\ writeMsgs' # <<>> /\ Head(writeMsgs') = Head(writeMsgs)
    BY <1>7, <1>8, <2>2, Zenon
  <2>4. WriterOK'
    BY <1>9, <1>10, <2>1, <2>3 DEF ChannelInv, WriterOK
  <2>5. Unwritten' = Append(Unwritten, msg)
    BY <1>7, <1>8, <1>12, <2>1, <2>2, Zenon DEF Unwritten
  <2>6. QED
    BY <1>7, <1>8, <2>1, <2>4, <2>5
<1>13. /\ WriterOK' /\ Unwritten' = Append(Unwritten, msg)
       /\ (writeMsgs = <<>> \/ writeResult \in {"pending", "ok"})'
            => writeMsgs = <<>> \/ writeResult \in {"pending", "ok"}
  BY <1>11, <1>12
<1>14. Unwritten' \o FlattenSeq(posted') = Unwritten \o FlattenSeq(posted)
  <2>1. FlattenSeq(posted') \in Seq(Sendable)
    <3>1. Tail(p) \in Seq(Seq(Sendable))
      BY <1>3, <1>5, Zenon
    <3>2. FlattenSeq(Tail(p)) \in Seq(Sendable)
      BY ONLY <3>1, FlattenType
    <3>3. QED
      BY <1>4, <3>2
  <2>2. PICK u, q : /\ u \in Seq(Sendable) /\ q \in Seq(Sendable)
                    /\ u = Unwritten /\ q = FlattenSeq(posted')
    BY <2>1, RestIs, Zenon DEF ChannelInv
  <2>3. FlattenSeq(p) = Head(p) \o FlattenSeq(Tail(p))
    BY <1>4, FlattenPop
  <2>4. FlattenSeq(posted) = <<msg>> \o q
    BY <1>2, <1>4, <1>6, <2>2, <2>3, Zenon
  <2>5. u \in Seq(Sendable) /\ q \in Seq(Sendable) /\ msg \in Sendable
    BY <1>6, <2>2, Zenon
  <2>6. Append(u, msg) \o q = u \o (<<msg>> \o q)
    BY ONLY <2>5, MovesOver
  <2>7. QED
    BY <1>13, <2>2, <2>4, <2>6, Zenon
<1>15. QED
  BY <1>1, <1>13, <1>14, SameRestKeeps

LEMMA RunPostedKeeps == ASSUME ChannelInv, RunPosted PROVE ChannelInv'
<1>1. posted # <<>> /\ posted' = Tail(posted) /\ UNCHANGED <<wire, sessionVars, sent>>
  BY DEF RunPosted, history
<1>2. CASE Head(posted) = <<>> /\ UNCHANGED writeVars
  BY <1>1, <1>2, CloseRuns
<1>3. CASE \E msg \in ToSet(Head(posted)) : DoWrite(msg)
  BY <1>1, <1>3, WriteRuns
<1>4. QED
  BY <1>2, <1>3 DEF RunPosted

LEMMA HandleWriteKeeps == ASSUME ChannelInv, HandleWrite PROVE ChannelInv'
<1>1. /\ UNCHANGED <<posted, wire, sent>>
      /\ UNCHANGED <<peer, reading, readResult, readHeader, readPayload,
                     readPayloadBufferSize, received>>
  BY DEF HandleWrite, sessionVars, readVars, history
<1>2. PICK w \in Seq(Sendable) : w = writeMsgs
  BY DEF ChannelInv, WriterOK
<1>3. CASE writeResult = "ok" /\ writeMsgs' = Tail(writeMsgs) /\ NextWrite
  <2>1. w # <<>> /\ writeMsgs' = Tail(w) /\ writeResult = "ok"
    BY <1>2, <1>3 DEF ChannelInv, WriterOK
  <2>2. PICK t \in Seq(Sendable) : t = Tail(w) /\ Len(t) = Len(w) - 1 /\ Len(w) \in Nat
                                  /\ \A i \in 1 .. Len(t) : t[i] = w[i + 1]
    BY <2>1, HeadTailProperties
  <2>3. Unwritten = t
    BY <1>2, <2>1, <2>2 DEF Unwritten
  <2>4. ASSUME Len(w) > 1
        PROVE  WriterOK' /\ Unwritten' = t
    <3>1. PICK msg \in Sendable : msg = w[2] /\ Head(t) = msg
      BY <2>2, <2>4
    <3>2. StartWrite(msg)
      BY <1>2, <1>3, <2>4, <3>1 DEF NextWrite
    <3>3. /\ writeBuffer' = Frame(msg) /\ writeBufferSize' \in Nat
          /\ Len(writeBuffer') <= writeBufferSize' /\ writeResult' = "pending"
      BY <3>2, WriteStarts DEF ChannelInv
    <3>4. t # <<>>
      BY <2>2, <2>4
    <3>5. writeMsgs' = t
      BY <2>1, <2>2
    <3>6. WriterOK'
      BY <1>1, <3>1, <3>3, <3>4, <3>5 DEF ChannelInv, WriterOK
    <3>7. Unwritten' = t
      BY <3>3, <3>5 DEF Unwritten
    <3>8. QED
      BY <3>6, <3>7
  <2>5. ASSUME ~(Len(w) > 1)
        PROVE  WriterOK' /\ Unwritten' = t
    <3>1. UNCHANGED <<writeBuffer, writeBufferSize>> /\ writeResult' = "none"
      BY <1>2, <1>3, <2>5 DEF NextWrite
    <3>2. t = <<>> /\ writeMsgs' = t
      BY <2>1, <2>2, <2>5
    <3>3. WriterOK'
      BY <1>1, <3>1, <3>2 DEF ChannelInv, WriterOK
    <3>4. Unwritten' = t
      BY <3>2 DEF Unwritten
    <3>5. QED
      BY <3>3, <3>4
  <2>6. WriterOK' /\ Unwritten' = Unwritten /\ writeResult = "ok"
    BY <2>1, <2>4, <2>5, <2>3
  <2>7. Unwritten' \o FlattenSeq(posted') = Unwritten \o FlattenSeq(posted)
    BY <1>1, <2>6
  <2>8. QED
    BY <1>1, <2>6, <2>7, SameRestKeeps
<1>4. CASE /\ writeResult = "error" /\ writeResult' = "none"
           /\ UNCHANGED <<writeMsgs, writeBuffer, writeBufferSize>>
  <2>1. writeMsgs # <<>>
    BY <1>4 DEF ChannelInv, WriterOK
  <2>2. WriterOK'
    BY <1>1, <1>4 DEF ChannelInv, WriterOK
  <2>3. Unwritten' = Unwritten
    BY <1>4, <2>1 DEF Unwritten
  <2>4. Unwritten' \o FlattenSeq(posted') = Unwritten \o FlattenSeq(posted)
    BY <1>1, <2>3
  <2>5. ~(writeMsgs = <<>> \/ writeResult \in {"pending", "ok"})'
    BY <1>4, <2>1
  <2>6. QED
    BY <1>1, <2>2, <2>4, <2>5, SameRestKeeps
<1>5. QED
  BY <1>3, <1>4 DEF HandleWrite

\* A write that fails leaves the rest of its message missing, and no other one follows.
LEMMA WriteCompletesKeeps == ASSUME ChannelInv, WriteCompletes PROVE ChannelInv'
<1>1. /\ writeResult = "pending" /\ UNCHANGED <<posted, sent, writeMsgs, writeBuffer, writeBufferSize>>
      /\ UNCHANGED <<peer, reading, readResult, readHeader, readPayload,
                     readPayloadBufferSize, received>>
  BY DEF WriteCompletes, clientVars, history, sessionVars, readVars
<1>2. PICK w \in Seq(Sendable) : w = writeMsgs /\ w # <<>> /\ writeBuffer = Frame(Head(w))
  BY <1>1 DEF ChannelInv, WriterOK
<1>3. PICK h, t : h = Head(w) /\ t = Tail(w)
  OBVIOUS
<1>4. h \in Sendable /\ t \in Seq(Sendable) /\ <<h>> \in Seq(Sendable) /\ w = <<h>> \o t
  BY <1>2, <1>3, PopIs
<1>5. PICK frame : /\ frame \in Seq(Bytes) /\ frame = Frame(h)
                   /\ Len(frame) = GetMessageSize(h) /\ Len(frame) \in Nat /\ Len(frame) >= 20
  <2>1. /\ Frame(h) \in Seq(Bytes) /\ Len(Frame(h)) = GetMessageSize(h)
        /\ GetMessageSize(h) \in Nat /\ GetMessageSize(h) >= 20
    BY <1>4, SendableAreMessages, FrameIs
  <2>2. QED
    BY <2>1, Zenon
<1>6. PICK part, rest :
        /\ part \in Seq(Bytes) /\ rest \in Seq(Bytes) /\ part \o rest = frame
        /\ wire' = wire \o part /\ writeResult' \in {"ok", "error"}
        /\ writeResult' = "ok" => rest = <<>>
  <2>1. PICK n : /\ n \in 0 .. Len(frame) /\ wire' = wire \o SubSeq(frame, 1, n)
                 /\ \/ writeResult' = "ok" /\ n = Len(frame)
                    \/ writeResult' = "error"
    <3>1. writeBuffer = frame /\ GetMessageSize(Head(writeMsgs)) = Len(frame)
      BY <1>2, <1>3, <1>5
    <3>2. \/ writeResult' = "ok" /\ wire' = wire \o SubSeq(frame, 1, Len(frame))
          \/ /\ writeResult' = "error"
             /\ \E n \in {0, 20, Len(frame) - 1} : wire' = wire \o SubSeq(frame, 1, n)
      <4>1. \A k : k \in (IF connect = "pending" THEN {0} ELSE {0, 20, Len(frame) - 1})
                     => k \in {0, 20, Len(frame) - 1}
        BY Zenon
      <4>2. QED
        BY <3>1, <4>1, Zenon DEF WriteCompletes, headerSize
    <3>3. \A l \in Nat : l >= 20 => {0, 20, l - 1} \subseteq 0 .. l /\ l \in 0 .. l
      OBVIOUS
    <3>4. {0, 20, Len(frame) - 1} \subseteq 0 .. Len(frame) /\ Len(frame) \in 0 .. Len(frame)
      BY <1>5, <3>3, Zenon
    <3>5. QED
      BY <3>2, <3>4, Zenon
  <2>2. /\ SubSeq(frame, 1, n) \in Seq(Bytes) /\ SubSeq(frame, n + 1, Len(frame)) \in Seq(Bytes)
        /\ SubSeq(frame, 1, n) \o SubSeq(frame, n + 1, Len(frame)) = frame
    BY <1>5, <2>1, SplitsAt
  <2>3. SubSeq(frame, Len(frame) + 1, Len(frame)) = <<>>
    BY <1>5, SubSeqEmpty
  <2>4. QED
    BY <2>1, <2>2, <2>3, Zenon
<1>7. WriterOK'
  BY <1>1, <1>2, <1>6 DEF ChannelInv, WriterOK
<1>8. ReaderOK'
  BY <1>1 DEF ChannelInv, ReaderOK
<1>9. readHeader \in Seq(Bytes) /\ readPayload \in Seq(Bytes) /\ wire \in Seq(Bytes)
  BY DEF ChannelInv, ReaderOK
<1>10. PICK under, missing, done :
         /\ under \in Seq(Sendable) /\ missing \in Seq(Bytes) /\ done \in Seq(Sendable)
         /\ Flows(under, missing, done)
  BY DEF ChannelInv
<1>11. wire' \in Seq(Bytes) /\ (peer # "closed" => Coming' \o rest = Stream(Append(under, h)))
  <2>1. PICK a, b, c : a = readHeader /\ b = readPayload /\ c = wire
    OBVIOUS
  <2>2. /\ a \in Seq(Bytes) /\ b \in Seq(Bytes) /\ c \in Seq(Bytes)
        /\ part \in Seq(Bytes) /\ rest \in Seq(Bytes)
    BY <1>6, <1>9, <2>1, Zenon
  <2>3. c \o part \in Seq(Bytes)
    BY ONLY <2>2
  <2>4. PutsAfter(a, b, c, part, rest)
    BY ONLY <2>2, PutBehind
  <2>5. Coming' = a \o (b \o (c \o part)) /\ Coming = a \o (b \o c)
    BY <1>1, <1>6, <2>1, Zenon DEF Coming
  <2>6. missing = <<>>
    BY <1>1, <1>10 DEF Flows
  <2>7. a \o (b \o c) \in Seq(Bytes)
    BY ONLY <2>2
  <2>8. Coming \o missing = Coming
    BY <2>5, <2>6, <2>7, NoneIs, Zenon
  <2>9. Stream(Append(under, h)) = Stream(under) \o frame
    BY <1>4, <1>5, <1>10, StreamIs, Zenon
  <2>10. peer # "closed" => Coming = Stream(under)
    BY <1>10, <2>8, Zenon DEF Flows
  <2>11. QED
    BY <1>6, <2>1, <2>3, <2>4, <2>5, <2>9, <2>10, Zenon DEF PutsAfter
<1>12. Append(under, h) \in Seq(Sendable) /\ Rest(Append(under, h))' = Rest(under)
  <2>1. PICK q : q \in Seq(Sendable) /\ q = FlattenSeq(posted)
    <3>1. FlattenSeq(posted) \in Seq(Sendable)
      BY RestIs DEF ChannelInv
    <3>2. QED
      BY <3>1, Zenon
  <2>2. Unwritten = w /\ Unwritten' = t
    BY <1>1, <1>2, <1>3, <1>6 DEF Unwritten
  <2>3. Rest(under) = under \o ((<<h>> \o t) \o q) /\ Rest(Append(under, h))' = Append(under, h) \o (t \o q)
    BY <1>1, <1>4, <2>1, <2>2, Zenon DEF Rest
  <2>4. PICK one, tq : one = <<h>> /\ tq = t \o q
    OBVIOUS
  <2>5. tq \in Seq(Sendable)
    BY ONLY <1>4, <2>1, <2>4
  <2>6. (one \o t) \o q = one \o (t \o q)
    <3>1. one \in Seq(Sendable) /\ t \in Seq(Sendable) /\ q \in Seq(Sendable)
      BY <1>4, <2>1, <2>4, Zenon
    <3>2. QED
      BY ONLY <3>1, JoinsInAnyOrder
  <2>7. Append(under, h) \o tq = under \o (<<h>> \o tq) /\ Append(under, h) \in Seq(Sendable)
    <3>1. under \in Seq(Sendable) /\ h \in Sendable /\ tq \in Seq(Sendable)
      BY <1>4, <1>10, <2>5, Zenon
    <3>2. QED
      BY ONLY <3>1, MovesOver
  <2>8. QED
    BY <2>3, <2>4, <2>6, <2>7, Zenon
<1>13. Flows(Append(under, h), rest, done)'
  <2>1. Delivered' = done \o Arriving(Rest(Append(under, h))') /\ received' = Packs(done)
    BY <1>1, <1>10, <1>12 DEF Flows, Delivered
  <2>2. (writeMsgs = <<>> \/ writeResult \in {"pending", "ok"})' => rest = <<>>
    BY <1>1, <1>2, <1>6
  <2>3. (peer # "closed")' => Coming' \o rest = Stream(Append(under, h))
    BY <1>1, <1>11
  <2>4. QED
    BY <2>1, <2>2, <2>3, Zenon DEF Flows
<1>14. QED
  BY <1>6, <1>7, <1>8, <1>10, <1>11, <1>12, <1>13 DEF ChannelInv

-----------------------------------------------------------------------------
(* What the session does to it.                                            *)

\* Bytes that go from the wire to a buffer are still to come.
LEMMA ReaderMoves ==
  ASSUME ChannelInv, ReaderOK', wire' \in Seq(Bytes),
         UNCHANGED <<posted, sent, writeMsgs, writeBuffer, writeBufferSize, writeResult, received>>,
         peer' # "closed" => peer # "closed" /\ Coming' = Coming
  PROVE  ChannelInv'
<1>1. WriterOK'
  BY DEF ChannelInv, WriterOK
<1>2. \A under : Rest(under)' = Rest(under)
  BY DEF Rest, Unwritten
<1>3. \A under, missing, done : Flows(under, missing, done) => Flows(under, missing, done)'
  BY <1>2 DEF Flows, Delivered
<1>4. QED
  BY <1>1, <1>3 DEF ChannelInv

LEMMA StartKeeps == ASSUME ChannelInv, Start PROVE ChannelInv'
<1>1. /\ UNCHANGED <<posted, sent, writeMsgs, writeBuffer, writeBufferSize, writeResult, received>>
      /\ UNCHANGED <<wire, readHeader, readPayload, readPayloadBufferSize>>
      /\ peer = "unopened" /\ peer' = "open" /\ reading' = "header" /\ readResult' = "pending"
  BY DEF Start, clientVars, writeVars, history
<1>2. ReaderOK'
  BY <1>1 DEF ChannelInv, ReaderOK
<1>3. Coming' = Coming /\ wire' \in Seq(Bytes)
  BY <1>1 DEF Coming, ChannelInv
<1>4. QED
  BY <1>1, <1>2, <1>3, ReaderMoves

LEMMA CloseSessionKeeps ==
  ASSUME ChannelInv, CloseSession, UNCHANGED wire,
         UNCHANGED <<posted, sent, writeMsgs, writeBuffer, writeBufferSize, writeResult>>
  PROVE  ChannelInv'
<1>1. /\ peer' = "closed" /\ reading' = "nothing" /\ readResult' = "none"
      /\ UNCHANGED <<readHeader, readPayload, readPayloadBufferSize, received>>
  BY DEF CloseSession
<1>2. ReaderOK'
  BY <1>1 DEF ChannelInv, ReaderOK
<1>3. wire' \in Seq(Bytes)
  BY DEF ChannelInv
<1>4. QED
  BY <1>1, <1>2, <1>3, ReaderMoves

LEMMA ReadCompletesKeeps == ASSUME ChannelInv, ReadCompletes PROVE ChannelInv'
<1>1. /\ UNCHANGED <<posted, sent, writeMsgs, writeBuffer, writeBufferSize, writeResult, received>>
      /\ UNCHANGED <<peer, reading, readPayloadBufferSize>> /\ readResult = "pending"
  BY DEF ReadCompletes, clientVars, writeVars, history
<1>2. PICK c : c \in Seq(Bytes) /\ c = wire
  BY DEF ChannelInv
<1>3. ASSUME readResult' = "ok", peer = "open", Len(wire) >= Wanted,
             wire' = SubSeq(wire, Wanted + 1, Len(wire)),
             IF reading = "header"
             THEN readHeader' = SubSeq(wire, 1, Wanted) /\ UNCHANGED readPayload
             ELSE readPayload' = SubSeq(wire, 1, Wanted) /\ UNCHANGED readHeader
      PROVE  ChannelInv'
  <2>1. PICK n : n \in Nat /\ n = Wanted
    <3>1. reading = "header" \/ reading = "body"
      BY <1>3 DEF ChannelInv, ReaderOK
    <3>2. reading = "header" => Wanted \in Nat
      BY DEF Wanted, headerSize
    <3>3. reading = "body" => Wanted \in Nat
      <4>1. reading = "body" => readHeader \in Seq(Bytes) /\ Len(readHeader) = 20
        BY DEF ChannelInv, ReaderOK
      <4>2. QED
        BY <4>1, HeaderLengthIs DEF Wanted
    <3>4. QED
      BY <3>1, <3>2, <3>3, Zenon
  <2>2. n \in 0 .. Len(c)
    BY <1>2, <1>3, <2>1
  <2>3. PICK part, rest : part = SubSeq(c, 1, n) /\ rest = SubSeq(c, n + 1, Len(c))
    OBVIOUS
  <2>4. /\ part \in Seq(Bytes) /\ Len(part) = n /\ rest \in Seq(Bytes)
        /\ part \o rest = c
    BY <1>2, <2>2, <2>3, SplitsAt
  <2>5. wire' = rest
    BY <1>2, <1>3, <2>1, <2>3, Zenon
  <2>6. wire' \in Seq(Bytes) /\ (peer' # "closed" => peer # "closed")
    BY <1>3, <2>4, <2>5
  <2>7. <<>> \o c = c /\ <<>> \o rest = rest
    BY <1>2, <2>4, NoneIs
  <2>8. ASSUME reading = "header"
        PROVE  ReaderOK' /\ Coming' = Coming
    <3>1. n = 20
      BY <2>1, <2>8 DEF Wanted, headerSize
    <3>2. readHeader' = part /\ readPayload' = readPayload
      BY <1>2, <1>3, <2>1, <2>3, <2>8, Zenon
    <3>3. readHeader = <<>> /\ readPayload = <<>>
      BY <1>1, <2>8 DEF ChannelInv, ReaderOK
    <3>4. ReaderOK'
      BY <1>1, <1>3, <2>4, <2>8, <3>1, <3>2 DEF ChannelInv, ReaderOK
    <3>5. Coming = c /\ Coming' = part \o rest
      BY <1>2, <2>5, <2>7, <3>2, <3>3, Zenon DEF Coming
    <3>6. QED
      BY <2>4, <3>4, <3>5, Zenon
  <2>9. ASSUME reading # "header"
        PROVE  ReaderOK' /\ Coming' = Coming
    <3>1. reading = "body"
      BY <1>3, <2>9 DEF ChannelInv, ReaderOK
    <3>2. readPayload' = part /\ readHeader' = readHeader
      BY <1>2, <1>3, <2>1, <2>3, <2>9, Zenon
    <3>3. readPayload = <<>> /\ n = HeaderLength(readHeader)
      BY <1>1, <2>1, <3>1 DEF ChannelInv, ReaderOK, Wanted
    <3>4. ReaderOK'
      BY <1>1, <1>3, <2>4, <3>1, <3>2, <3>3 DEF ChannelInv, ReaderOK
    <3>5. Coming = readHeader \o c /\ Coming' = readHeader \o (part \o rest)
      BY <1>2, <2>5, <2>7, <3>2, <3>3, Zenon DEF Coming
    <3>6. QED
      BY <2>4, <3>4, <3>5, Zenon
  <2>10. QED
    BY <1>1, <2>6, <2>8, <2>9, ReaderMoves
<1>4. ASSUME readResult' = "error", UNCHANGED <<wire, readHeader, readPayload>>
      PROVE  ChannelInv'
  <2>1. ReaderOK'
    BY <1>1, <1>4 DEF ChannelInv, ReaderOK
  <2>2. Coming' = Coming /\ wire' \in Seq(Bytes)
    BY <1>2, <1>4 DEF Coming
  <2>3. QED
    BY <1>1, <2>1, <2>2, ReaderMoves
<1>5. QED
  BY <1>3, <1>4, Zenon DEF ReadCompletes

LEMMA HandleReadHeaderKeeps == ASSUME ChannelInv, HandleReadHeader PROVE ChannelInv'
<1>1. /\ UNCHANGED <<posted, sent, writeMsgs, writeBuffer, writeBufferSize, writeResult, wire>>
      /\ reading = "header"
  BY DEF HandleReadHeader, clientVars, writeVars, history
<1>2. CASE /\ readResult = "ok" /\ reading' = "body" /\ readResult' = "pending"
           /\ readPayloadBufferSize' = IF readPayloadBufferSize < HeaderLength(readHeader)
                                       THEN HeaderLength(readHeader) ELSE readPayloadBufferSize
           /\ UNCHANGED <<peer, readHeader, readPayload, received>>
  <2>1. readHeader \in Seq(Bytes) /\ Len(readHeader) = 20
    BY <1>1, <1>2 DEF ChannelInv, ReaderOK
  <2>2. PICK n : n \in Nat /\ n = HeaderLength(readHeader)
    BY <2>1, HeaderLengthIs
  <2>3. n <= readPayloadBufferSize' /\ readPayloadBufferSize' \in Nat
    BY <1>2, <2>2 DEF ChannelInv, ReaderOK
  <2>4. n = HeaderLength(readHeader')
    BY <1>2, <2>2
  <2>5. ReaderOK'
    BY <1>1, <1>2, <2>3, <2>4 DEF ChannelInv, ReaderOK
  <2>6. Coming' = Coming /\ wire' \in Seq(Bytes)
    BY <1>1, <1>2 DEF Coming, ChannelInv
  <2>7. peer' # "closed" => peer # "closed"
    BY <1>2
  <2>8. QED
    BY <1>1, <1>2, <2>5, <2>6, <2>7, ReaderMoves
<1>3. CASE readResult = "error" /\ CloseSession
  BY <1>1, <1>3, CloseSessionKeeps
<1>4. QED
  BY <1>2, <1>3, Zenon DEF HandleReadHeader

LEMMA NotNone ==
  ASSUME NEW S, NEW a, NEW b, NEW c, NEW m,
         a \in Seq(S), b \in Seq(S), c \in Seq(S), m \in Seq(S),
         Len(a) = 20, (a \o (b \o c)) \o m = <<>>
  PROVE  FALSE
<1>1. PICK d : d \in Seq(S) /\ d = b \o c
  <2>1. b \o c \in Seq(S)
    BY ONLY b \in Seq(S), c \in Seq(S)
  <2>2. QED
    BY ONLY <2>1
<1>2. PICK e : e \in Seq(S) /\ e = a \o d /\ Len(e) >= 20
  <2>1. a \o d \in Seq(S) /\ Len(a \o d) = Len(a) + Len(d) /\ Len(d) \in Nat
    BY ONLY <1>1, a \in Seq(S)
  <2>2. a \o d \in Seq(S) /\ Len(a \o d) >= 20
    BY <2>1
  <2>3. QED
    BY <2>2, Zenon
<1>3. Len(e \o m) = Len(e) + Len(m) /\ Len(m) \in Nat /\ Len(e) \in Nat
  BY ONLY <1>2, m \in Seq(S)
<1>4. e \o m = <<>>
  BY <1>1, <1>2, Zenon
<1>5. Len(<<>>) = 0
  OBVIOUS
<1>6. QED
  BY <1>2, <1>3, <1>4, <1>5

\* The message that is read is the first of those under way.
LEMMA ReadBodyKeeps ==
  ASSUME ChannelInv, reading = "body", readResult = "ok", CreateMessage,
         reading' = "header", readResult' = "pending", readHeader' = <<>>, readPayload' = <<>>,
         UNCHANGED <<peer, readPayloadBufferSize, wire, posted, sent>>,
         UNCHANGED <<writeMsgs, writeBuffer, writeBufferSize, writeResult>>
  PROVE  ChannelInv'
<1>1. PICK a, b, c : a = readHeader /\ b = readPayload /\ c = wire
  OBVIOUS
<1>2. /\ a \in Seq(Bytes) /\ b \in Seq(Bytes) /\ c \in Seq(Bytes) /\ Len(a) = 20
      /\ Len(b) = HeaderLength(a) /\ peer = "open"
  BY <1>1 DEF ChannelInv, ReaderOK
<1>3. ReaderOK'
  <2>1. <<>> \in Seq(Bytes)
    OBVIOUS
  <2>2. QED
    BY <1>2, <2>1 DEF ChannelInv, ReaderOK
<1>4. WriterOK'
  BY DEF ChannelInv, WriterOK
<1>5. PICK under, missing, done :
        /\ under \in Seq(Sendable) /\ missing \in Seq(Bytes) /\ done \in Seq(Sendable)
        /\ Flows(under, missing, done)
  BY DEF ChannelInv
<1>6. (a \o (b \o c)) \o missing = Stream(under)
  BY <1>1, <1>2, <1>5, Zenon DEF Flows, Coming
<1>7. under # <<>>
  <2>1. under = <<>> => Stream(under) = <<>>
    BY <1>5, StreamIs
  <2>2. under = <<>> => (a \o (b \o c)) \o missing = <<>>
    BY <1>6, <2>1, Zenon
  <2>3. missing \in Seq(Bytes)
    BY <1>5, Zenon
  <2>4. (a \o (b \o c)) \o missing # <<>>
    BY ONLY <1>2, <2>3, NotNone
  <2>5. QED
    BY <2>2, <2>4, Zenon
<1>8. PICK h, t : h = Head(under) /\ t = Tail(under)
  OBVIOUS
<1>9. h \in Sendable /\ t \in Seq(Sendable) /\ under = <<h>> \o t
  BY <1>5, <1>7, <1>8, PopIs
<1>10. PICK header, payload, after :
         header = WriteHeader(h) /\ payload = Payload(h) /\ after = Stream(t)
  OBVIOUS
<1>11. IsMessage(h)
  BY <1>9, SendableAreMessages, Zenon
<1>12. /\ header \in Seq(Bytes) /\ Len(header) = 20 /\ HeaderLength(header) = GetPayloadSize(h)
       /\ CreatedKinds(header) = IF h.kind \in LostKinds THEN {} ELSE {h.kind}
  BY <1>10, <1>11, HeaderIs, Zenon
<1>13. payload \in Seq(Bytes) /\ Len(payload) = GetPayloadSize(h)
  BY <1>10, <1>11, FrameIs, Zenon
<1>14. after \in Seq(Bytes) /\ Stream(under) = (header \o payload) \o after
  <2>1. Stream(under) = Frame(h) \o Stream(t)
    BY <1>5, <1>7, <1>8, StreamIs, Zenon
  <2>2. Stream(t) \in Seq(Bytes)
    BY <1>9, StreamIs, Zenon
  <2>3. QED
    BY <1>10, <2>1, <2>2, Zenon DEF Frame
<1>15. a = header /\ b = payload /\ c \o missing = after
  <2>1. a = header => Len(b) = Len(payload)
    BY <1>2, <1>12, <1>13, Zenon
  <2>2. (a \o (b \o c)) \o missing = (header \o payload) \o after
    BY <1>6, <1>14, Zenon
  <2>3. Len(a) = Len(header)
    BY <1>2, <1>12, Zenon
  <2>4. /\ a \in Seq(Bytes) /\ b \in Seq(Bytes) /\ c \in Seq(Bytes) /\ missing \in Seq(Bytes)
        /\ header \in Seq(Bytes) /\ payload \in Seq(Bytes) /\ after \in Seq(Bytes)
    BY <1>2, <1>5, <1>12, <1>13, <1>14, Zenon
  <2>5. TakesOff(a, b, c, missing, header, payload, after)
    BY ONLY <2>1, <2>2, <2>3, <2>4, TakenOff
  <2>6. QED
    BY <2>5, Zenon DEF TakesOff
<1>16. PICK some : some \in Seq(Sendable) /\ some = Arrives(h)
  <2>1. Arrives(h) \in Seq(Sendable)
    BY <1>9, ArrivesIs, Zenon
  <2>2. QED
    BY <2>1, Zenon
<1>17. done \o some \in Seq(Sendable) /\ received' = Packs(done \o some)
  <2>1. CASE h.kind \in LostKinds
    <3>1. CreatedKinds(readHeader) = {}
      BY <1>1, <1>12, <1>15, <2>1, Zenon
    <3>2. received' = received
      BY <3>1, Zenon DEF CreateMessage
    <3>3. some = <<>>
      BY <1>16, <2>1, Zenon DEF Arrives
    <3>4. done \o <<>> = done
      BY <1>5, NoneIs
    <3>5. QED
      BY <1>5, <3>2, <3>3, <3>4, Zenon DEF Flows
  <2>2. CASE h.kind \notin LostKinds
    <3>1. CreatedKinds(readHeader) = {h.kind}
      BY <1>1, <1>12, <1>15, <2>2, Zenon
    <3>2. received' = Append(received, [kind |-> h.kind, payload |-> payload])
      <4>1. CreatedKinds(readHeader) # {}
        BY <3>1
      <4>2. \E kind \in {h.kind} :
              received' = Append(received, [kind |-> kind, payload |-> readPayload])
        BY <3>1, <4>1 DEF CreateMessage
      <4>3. readPayload = payload
        BY <1>1, <1>15
      <4>4. QED
        BY <4>2, <4>3
    <3>3. some = <<h>>
      BY <1>16, <2>2, Zenon DEF Arrives
    <3>4. done \o <<h>> = Append(done, h) /\ Append(done, h) \in Seq(Sendable)
      <4>1. done \in Seq(Sendable)
        BY <1>5, Zenon
      <4>2. Append(done, h) = done \o <<h>>
        BY <1>9, <4>1, PushIs
      <4>3. Append(done, h) \in Seq(Sendable)
        BY <1>9, <4>1, AppendProperties
      <4>4. QED
        BY <4>2, <4>3, Zenon
    <3>5. Packs(Append(done, h)) = Append(Packs(done), [kind |-> h.kind, payload |-> payload])
      BY <1>5, <1>9, <1>10, PacksAre, Zenon
    <3>6. received = Packs(done)
      BY <1>5 DEF Flows
    <3>7. QED
      BY <3>2, <3>3, <3>4, <3>5, <3>6, Zenon
  <2>3. QED
    BY <2>1, <2>2
<1>18. Delivered = (done \o some) \o Arriving(Rest(t))
  <2>1. PICK u, q : /\ u \in Seq(Sendable) /\ q \in Seq(Sendable)
                    /\ u = Unwritten /\ q = FlattenSeq(posted)
    <3>1. Unwritten \in Seq(Sendable) /\ FlattenSeq(posted) \in Seq(Sendable)
      BY RestIs DEF ChannelInv
    <3>2. QED
      BY <3>1, Zenon
  <2>2. PICK one, uq : one = <<h>> /\ uq = u \o q
    OBVIOUS
  <2>3. one \in Seq(Sendable) /\ uq \in Seq(Sendable)
    <3>1. one \in Seq(Sendable)
      BY <1>9, <2>2, FewAre, Zenon
    <3>2. uq \in Seq(Sendable)
      BY ONLY <2>1, <2>2
    <3>3. QED
      BY <3>1, <3>2
  <2>4. PICK r : r \in Seq(Sendable) /\ r = t \o uq
    <3>1. t \in Seq(Sendable) /\ uq \in Seq(Sendable)
      BY <1>9, <2>3, Zenon
    <3>2. t \o uq \in Seq(Sendable)
      BY ONLY <3>1
    <3>3. QED
      BY <3>2, Zenon
  <2>5. Rest(t) = r
    BY <2>1, <2>2, <2>4, Zenon DEF Rest
  <2>6. (one \o t) \o uq = one \o (t \o uq)
    <3>1. one \in Seq(Sendable) /\ t \in Seq(Sendable) /\ uq \in Seq(Sendable)
      BY <1>9, <2>3, Zenon
    <3>2. QED
      BY ONLY <3>1, JoinsInAnyOrder
  <2>7. Rest(under) = <<h>> \o r
    BY <1>9, <2>1, <2>2, <2>4, <2>6, Zenon DEF Rest
  <2>8. /\ <<h>> \o r \in Seq(Sendable) /\ Head(<<h>> \o r) = h /\ Tail(<<h>> \o r) = r
        /\ <<h>> \o r # <<>>
    <3>1. <<>> \in Seq(Sendable)
      OBVIOUS
    <3>2. h \in Sendable /\ r \in Seq(Sendable)
      BY <1>9, <2>4, Zenon
    <3>3. QED
      BY ONLY <3>1, <3>2, MovesOver
  <2>9. Arriving(<<h>> \o r) = Arrives(h) \o Arriving(r)
    BY <2>8, ArrivingIs, Zenon
  <2>10. PICK later : later \in Seq(Sendable) /\ later = Arriving(r)
    <3>1. Arriving(r) \in Seq(Sendable)
      BY <2>4, ArrivingIs, Zenon
    <3>2. QED
      BY <3>1, Zenon
  <2>11. (done \o some) \o later = done \o (some \o later)
    <3>1. done \in Seq(Sendable) /\ some \in Seq(Sendable) /\ later \in Seq(Sendable)
      BY <1>5, <1>16, <2>10, Zenon
    <3>2. QED
      BY ONLY <3>1, JoinsInAnyOrder
  <2>12. Delivered = done \o Arriving(Rest(under))
    BY <1>5 DEF Flows
  <2>13. QED
    BY <1>16, <2>5, <2>7, <2>9, <2>10, <2>11, <2>12, Zenon
<1>19. Coming' = c
  <2>1. <<>> \o c = c
    BY <1>2, NoneIs
  <2>2. QED
    BY <1>1, <2>1 DEF Coming
<1>20. Rest(t)' = Rest(t) /\ Delivered' = Delivered
  BY DEF Rest, Unwritten, Delivered
<1>21. Flows(t, missing, done \o some)'
  <2>1. (writeMsgs = <<>> \/ writeResult \in {"pending", "ok"})' => missing = <<>>
    BY <1>5 DEF Flows
  <2>2. Coming' \o missing = Stream(t)
    BY <1>10, <1>15, <1>19, Zenon
  <2>3. Delivered' = (done \o some) \o Arriving(Rest(t)')
    BY <1>18, <1>20, Zenon
  <2>4. QED
    BY <1>17, <2>1, <2>2, <2>3, Zenon DEF Flows
<1>22. wire' \in Seq(Bytes) /\ missing \in Seq(Bytes)
  BY <1>5 DEF ChannelInv
<1>23. QED
  BY <1>3, <1>4, <1>9, <1>17, <1>21, <1>22, Zenon DEF ChannelInv

LEMMA HandleReadBodyKeeps == ASSUME ChannelInv, HandleReadBody PROVE ChannelInv'
<1>1. /\ UNCHANGED <<posted, sent, writeMsgs, writeBuffer, writeBufferSize, writeResult, wire>>
      /\ reading = "body"
  BY DEF HandleReadBody, clientVars, writeVars, history
<1>2. CASE /\ readResult = "ok" /\ CreateMessage /\ reading' = "header" /\ readResult' = "pending"
           /\ readHeader' = <<>> /\ readPayload' = <<>> /\ UNCHANGED <<peer, readPayloadBufferSize>>
  BY <1>1, <1>2, ReadBodyKeeps
<1>3. CASE readResult = "error" /\ CloseSession
  BY <1>1, <1>3, CloseSessionKeeps
<1>4. CASE ReadFaults /\ CloseSession
  BY <1>1, <1>4, CloseSessionKeeps
<1>5. QED
  BY <1>2, <1>3, <1>4, Zenon DEF HandleReadBody

-----------------------------------------------------------------------------
(* The invariant holds, and what follows from it.                          *)

LEMMA StepKeepsChannelInv == ChannelInv /\ [Next]_vars => ChannelInv'
<1> SUFFICES ASSUME ChannelInv, [Next]_vars PROVE ChannelInv'
  OBVIOUS
<1>1. ASSUME \/ ConnectCompletes \/ HandleConnect \/ Notify \/ Returns \/ HandleReadError
             \/ WriteFaults \/ ObserverCall \/ Lose
      PROVE  ChannelInv'
  BY <1>1, OthersAreAside, AsideKeeps
<1>2. CASE RunPosted
  BY <1>2, RunPostedKeeps
<1>3. CASE HandleWrite
  BY <1>3, HandleWriteKeeps
<1>4. CASE WriteCompletes
  BY <1>4, WriteCompletesKeeps
<1>5. CASE Start
  BY <1>5, StartKeeps
<1>6. CASE ReadCompletes
  BY <1>6, ReadCompletesKeeps
<1>7. CASE HandleReadHeader
  BY <1>7, HandleReadHeaderKeeps
<1>8. CASE HandleReadBody
  BY <1>8, HandleReadBodyKeeps
<1>9. CASE Send
  BY <1>9, SendKeeps
<1>10. CASE Close
  BY <1>10, CloseKeeps
<1>11. CASE UNCHANGED vars
  <2>1. UNCHANGED channelVars
    BY <1>11 DEF vars, channelVars, clientVars, history
  <2>2. QED
    BY <2>1, AsideKeeps
<1>12. QED
  BY <1>1, <1>2, <1>3, <1>4, <1>5, <1>6, <1>7, <1>8, <1>9, <1>10, <1>11, Zenon
     DEF Next, ClientIo, Session

LEMMA PacksHas ==
  ASSUME NEW s \in Seq(Sendable)
  PROVE  \A i \in DOMAIN Packs(s) :
           /\ i \in 1 .. Len(s) /\ s[i] \in Sendable
           /\ Packs(s)[i].kind = s[i].kind /\ Packs(s)[i].payload = Payload(s[i])
BY DEF Packs

\* The messages that were created are the first that arrive.
LEMMA DoneIs ==
  ASSUME ChannelInv
  PROVE  \E done \in Seq(Sendable), later \in Seq(Sendable) :
           received = Packs(done) /\ Delivered = done \o later
<1>1. PICK under, missing, done :
        /\ under \in Seq(Sendable) /\ missing \in Seq(Bytes) /\ done \in Seq(Sendable)
        /\ Flows(under, missing, done)
  BY DEF ChannelInv
<1>2. Rest(under) \in Seq(Sendable)
  BY <1>1, RestIs DEF ChannelInv
<1>3. Arriving(Rest(under)) \in Seq(Sendable)
  BY <1>2, ArrivingIs, Zenon
<1>4. QED
  BY <1>1, <1>3, Zenon DEF Flows

\* One by one.
LEMMA DoneAre ==
  ASSUME ChannelInv
  PROVE  /\ Len(received) <= Len(Delivered)
         /\ \A i \in DOMAIN received :
              \E msg \in Sendable : /\ msg = Delivered[i] /\ received[i].kind = msg.kind
                                   /\ received[i].payload = Payload(msg)
<1>1. PICK done, later : /\ done \in Seq(Sendable) /\ later \in Seq(Sendable)
                         /\ received = Packs(done) /\ Delivered = done \o later
  BY DoneIs, Zenon
<1>2. /\ Len(done \o later) = Len(done) + Len(later) /\ Len(done) \in Nat /\ Len(later) \in Nat
      /\ \A i \in 1 .. Len(done) : (done \o later)[i] = done[i]
  BY <1>1, ConcatProperties
<1>3. Len(received) = Len(done)
  BY <1>1, PacksAre
<1>4. Len(received) <= Len(Delivered)
  BY <1>1, <1>2, <1>3
<1>5. ASSUME NEW i \in DOMAIN received
      PROVE  /\ done[i] \in Sendable /\ done[i] = Delivered[i]
             /\ received[i].kind = done[i].kind /\ received[i].payload = Payload(done[i])
  <2>1. /\ i \in 1 .. Len(done) /\ done[i] \in Sendable
        /\ received[i].kind = done[i].kind /\ received[i].payload = Payload(done[i])
    BY <1>1, PacksHas, Zenon
  <2>2. Delivered[i] = done[i]
    BY <1>1, <1>2, <2>1, Zenon
  <2>3. QED
    BY <2>1, <2>2
<1>6. QED
  BY <1>4, <1>5

LEMMA InvBuffersHold == ChannelInv => BuffersHold
<1> SUFFICES ASSUME ChannelInv PROVE BuffersHold
  OBVIOUS
<1>1. writeResult = "pending" => /\ Len(writeBuffer) = GetMessageSize(Head(writeMsgs))
                                 /\ Len(writeBuffer) <= writeBufferSize
  <2> SUFFICES ASSUME writeResult = "pending"
               PROVE  /\ Len(writeBuffer) = GetMessageSize(Head(writeMsgs))
                      /\ Len(writeBuffer) <= writeBufferSize
    OBVIOUS
  <2>1. /\ writeMsgs \in Seq(Sendable) /\ writeMsgs # <<>>
        /\ writeBuffer = Frame(Head(writeMsgs)) /\ Len(writeBuffer) <= writeBufferSize
    BY DEF ChannelInv, WriterOK
  <2>2. Head(writeMsgs) \in Sendable
    BY <2>1, PopIs
  <2>3. Len(Frame(Head(writeMsgs))) = GetMessageSize(Head(writeMsgs))
    BY <2>2, SendableAreMessages, FrameIs
  <2>4. QED
    BY <2>1, <2>3
<1>2. reading = "body" => Wanted <= readPayloadBufferSize
  BY DEF ChannelInv, ReaderOK, Wanted
<1>3. ASSUME NEW i \in DOMAIN received, CountsAreRight(Delivered[i])
      PROVE  ReadPayload(received[i].kind, received[i].payload, TRUE).at = Len(received[i].payload) + 1
  <2>1. PICK msg \in Sendable : /\ msg = Delivered[i] /\ received[i].kind = msg.kind
                                /\ received[i].payload = Payload(msg)
    BY DoneAre, Zenon
  <2>2. Payload(msg) = WritePayload(msg)
    BY <1>3, <2>1 DEF Payload, CountsAreRight
  <2>3. ReadPayload(msg.kind, WritePayload(msg), TRUE).at = Len(WritePayload(msg)) + 1
    BY <1>3, <2>1, SendableAreMessages, PayloadIsRead
  <2>4. QED
    BY <2>1, <2>2, <2>3
<1>4. QED
  BY <1>1, <1>2, <1>3 DEF BuffersHold

LEMMA InvArrivesAsSent == ChannelInv => ArrivesAsSent
<1> SUFFICES ASSUME ChannelInv PROVE ArrivesAsSent
  OBVIOUS
<1>1. Len(received) <= Len(Delivered)
  BY DoneAre
<1>2. ASSUME NEW i \in DOMAIN received
      PROVE  received[i].kind = Delivered[i].kind
  BY DoneAre
<1>3. ASSUME NEW i \in DOMAIN received, NEW held \in BOOLEAN, CountsAreRight(Delivered[i])
      PROVE  ReadAs(ReadPayload(received[i].kind, received[i].payload, held).msg, Delivered[i])
  <2>1. PICK msg \in Sendable : /\ msg = Delivered[i] /\ received[i].kind = msg.kind
                                /\ received[i].payload = Payload(msg)
    BY DoneAre, Zenon
  <2>2. Payload(msg) = WritePayload(msg)
    BY <1>3, <2>1 DEF Payload, CountsAreRight
  <2>3. ReadAs(ReadPayload(msg.kind, WritePayload(msg), held).msg, msg)
    BY <1>3, <2>1, SendableAreMessages, PayloadIsRead
  <2>4. QED
    BY <2>1, <2>2, <2>3, Zenon
<1>4. QED
  BY <1>1, <1>2, <1>3 DEF ArrivesAsSent

LEMMA ChannelInvariant == Spec => []ChannelInv
<1>1. QED
  BY InitChannelInv, StepKeepsChannelInv, PTL DEF Spec

\* Whatever messages are sent, their counts right or what the memory held, and however the
\* connection breaks: a message that is written has as many bytes as GetMessageSize
\* computed, and the buffers of the client and of the session are grown to what is written
\* and read.  A message whose counts are right is read to the end of its payload.
THEOREM BuffersAreLargeEnough == Spec => []BuffersHold
  BY ChannelInvariant, InvBuffersHold, PTL

\* What the session makes of the bytes are messages of the kinds that were sent, in their
\* order, but for those that terminate a lease; and each whose counts are right has the
\* members it was sent with, but for the upper halves of those of 64 bits.
THEOREM MessagesArriveAsSent == Spec => []ArrivesAsSent
  BY ChannelInvariant, InvArrivesAsSent, PTL
=============================================================================
