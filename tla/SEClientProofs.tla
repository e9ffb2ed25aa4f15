--------------------------- MODULE SEClientProofs ---------------------------
(***************************************************************************)
(* The receiver of the sync signal, for any packets whose frames are       *)
(* longer than a payload (FramesHaveFill: the code accepts shorter ones,   *)
(* and overruns or loops) and than the buffers of their line: it stays     *)
(* within its frame and its buffer, and it notices that the signal is      *)
(* gone, as long as no packet it accepts tells a duration that was not     *)
(* sent.  Both rest on what the frame ends with: the zeros that were       *)
(* parsed last, with the marker it begins with before them.                *)
(* And it accepts no such packet while no glitch ends within a payload:    *)
(* every sample has a place in a packet, behind the place of the one       *)
(* before.                                                                 *)
(*                                                                         *)
(* And it follows the signal: what is read of a packet's samples is the    *)
(* packet, and behind a frame that came whole the parser holds the next    *)
(* one from its first sample on, whatever it had made of what came before. *)
(***************************************************************************)
EXTENDS SEClient, FlattenTheorems

-----------------------------------------------------------------------------
(* What a packet is written as.                                            *)

LEMMA WordIs == Word \in Nat \ {0} /\ SYNCMARKER \in Nat
<1>1. \A b \in Nat \ {0, 1} : b * b \in Nat \ {0}
  OBVIOUS
<1>2. QED
  BY <1>1, SyncPacketAssumption DEF Word

LEMMA MarkerIs == SyncMarker \in Nat \ {0} /\ SyncMarker = Word + SYNCMARKER
BY WordIs DEF SyncMarker, WriteMarker, Pair

LEMMA PayloadIs == payloadDuration \in Nat /\ payloadDuration = 40 + 6 * UUIDWords /\ payloadDuration > 40
BY SyncPacketAssumption DEF payloadDuration, PayloadWords

\* What one word can hold, and n words as they are written.
Words == 0 .. Word - 1
Paired(s, n) ==
  /\ s \in Seq(Int) /\ Len(s) = 2 * n
  /\ \A j \in 1 .. n : s[2 * j - 1] \in Words /\ s[2 * j] = -s[2 * j - 1]

\* The same behind a marker.
Packed(s, n) ==
  /\ s \in Seq(Int) /\ Len(s) = 2 * n
  /\ s[1] = SyncMarker /\ s[2] = -SyncMarker
  /\ \A j \in 2 .. n : s[2 * j - 1] \in Words /\ s[2 * j] = -s[2 * j - 1]

LEMMA PairIs ==
  ASSUME NEW v \in Words
  PROVE  /\ Paired(Pair(v), 1) /\ Pair(v) \in Seq(Int) /\ Len(Pair(v)) = 2
         /\ Pair(v)[1] = v /\ Pair(v)[2] = -v
<1>1. v \in Int /\ -v \in Int
  BY WordIs DEF Words
<1>2. \A x, y \in Int : <<x, y>> \in Seq(Int) /\ Len(<<x, y>>) = 2 * 1
  OBVIOUS
<1>3. \A j \in 1 .. 1 : j = 1 /\ 2 * j - 1 = 1 /\ 2 * j = 2
  OBVIOUS
<1>4. QED
  BY <1>1, <1>2, <1>3 DEF Pair, Paired

\* Words behind words.
LEMMA WordsJoin ==
  ASSUME NEW m \in Nat, NEW n \in Nat, NEW t, NEW s, Paired(s, n)
  PROVE  /\ Paired(t, m) => Paired(t \o s, m + n)
         /\ m > 0 /\ Packed(t, m) => Packed(t \o s, m + n)
<1>1. ASSUME t \in Seq(Int), Len(t) = 2 * m
      PROVE  /\ t \o s \in Seq(Int) /\ Len(t \o s) = 2 * (m + n)
             /\ \A i \in 1 .. 2 * m : (t \o s)[i] = t[i]
             /\ \A i \in 1 .. 2 * n : (t \o s)[2 * m + i] = s[i]
  <2>1. s \in Seq(Int) /\ Len(s) = 2 * n
    BY DEF Paired
  <2>2. \A u, v \in Seq(Int) :
          /\ u \o v \in Seq(Int) /\ Len(u \o v) = Len(u) + Len(v)
          /\ \A i \in 1 .. Len(u) : (u \o v)[i] = u[i]
          /\ \A i \in 1 .. Len(v) : (u \o v)[Len(u) + i] = v[i]
    OBVIOUS
  <2>3. 2 * m + 2 * n = 2 * (m + n)
    OBVIOUS
  <2>4. QED
    <3>1. Len(t \o s) = Len(t) + Len(s) /\ t \o s \in Seq(Int)
      BY <1>1, <2>1, <2>2
    <3>2. /\ \A i \in 1 .. Len(t) : (t \o s)[i] = t[i]
          /\ \A i \in 1 .. Len(s) : (t \o s)[Len(t) + i] = s[i]
      BY <1>1, <2>1, <2>2
    <3>3. QED
      BY <1>1, <2>1, <2>3, <3>1, <3>2
<1>2. ASSUME t \in Seq(Int), Len(t) = 2 * m, NEW j \in 1 .. m + n,
             j \in 1 .. m => t[2 * j - 1] \in Words /\ t[2 * j] = -t[2 * j - 1]
      PROVE  (t \o s)[2 * j - 1] \in Words /\ (t \o s)[2 * j] = -(t \o s)[2 * j - 1]
  <2>1. CASE j <= m
    <3>1. 2 * j - 1 \in 1 .. 2 * m /\ 2 * j \in 1 .. 2 * m /\ j \in 1 .. m
      BY <2>1
    <3>2. QED
      BY <1>1, <1>2, <3>1
  <2>2. CASE ~(j <= m)
    <3>1. /\ j - m \in 1 .. n /\ 2 * (j - m) - 1 \in 1 .. 2 * n /\ 2 * (j - m) \in 1 .. 2 * n
          /\ 2 * m + (2 * (j - m) - 1) = 2 * j - 1 /\ 2 * m + 2 * (j - m) = 2 * j
      BY <2>2
    <3>2. s[2 * (j - m) - 1] \in Words /\ s[2 * (j - m)] = -s[2 * (j - m) - 1]
      BY <3>1 DEF Paired
    <3>3. /\ (t \o s)[2 * m + (2 * (j - m) - 1)] = s[2 * (j - m) - 1]
          /\ (t \o s)[2 * m + 2 * (j - m)] = s[2 * (j - m)]
      BY <1>1, <1>2, <3>1
    <3>4. QED
      BY <3>1, <3>2, <3>3
  <2>3. QED
    BY <2>1, <2>2
<1>3. Paired(t, m) => Paired(t \o s, m + n)
  BY <1>1, <1>2 DEF Paired
<1>4. ASSUME m > 0, Packed(t, m)
      PROVE  Packed(t \o s, m + n)
  <2>1. t \in Seq(Int) /\ Len(t) = 2 * m
    BY <1>4 DEF Packed
  <2>2. (t \o s)[1] = SyncMarker /\ (t \o s)[2] = -SyncMarker
    <3>1. 1 \in 1 .. 2 * m /\ 2 \in 1 .. 2 * m
      BY <1>4
    <3>2. QED
      BY <1>1, <1>4, <2>1, <3>1 DEF Packed
  <2>3. ASSUME NEW j \in 2 .. m + n
        PROVE  (t \o s)[2 * j - 1] \in Words /\ (t \o s)[2 * j] = -(t \o s)[2 * j - 1]
    <3>1. j \in 1 .. m + n /\ (j \in 1 .. m => j \in 2 .. m)
      OBVIOUS
    <3>2. j \in 1 .. m => t[2 * j - 1] \in Words /\ t[2 * j] = -t[2 * j - 1]
      BY <1>4, <3>1 DEF Packed
    <3>3. QED
      BY <1>2, <2>1, <3>1, <3>2
  <2>4. QED
    BY <1>1, <2>1, <2>2, <2>3 DEF Packed
<1>5. QED
  BY <1>3, <1>4
LEMMA Written32 ==
  ASSUME NEW v \in UInt32
  PROVE  /\ Paired(WriteUInt32(v), 2)
         /\ WriteUInt32(v)[1] = v \div Word /\ WriteUInt32(v)[3] = v % Word
         /\ (v \div Word) \in Words /\ (v % Word) \in Words
         /\ (v \div Word) * Word + (v % Word) = v
<1>1. /\ (v \div Word) \in Words /\ (v % Word) \in Words
      /\ (v \div Word) * Word + (v % Word) = v
  <2>1. v \in Nat /\ v < Word * Word
    <3>1. \A m \in Int : \A u \in 0 .. m - 1 : u \in Nat /\ u < m
      OBVIOUS
    <3>2. Word * Word \in Int
      BY WordIs
    <3>3. QED
      BY <3>1, <3>2 DEF UInt32
  <2>2. /\ v \div Word \in Nat /\ v % Word \in 0 .. Word - 1
        /\ v = Word * (v \div Word) + (v % Word)
    BY <2>1, WordIs, DivMod
  <2>3. v \div Word < Word
    BY <2>1, WordIs, DivBelow
  <2>4. \A q, w, r \in Nat : w * q + r = q * w + r
    OBVIOUS
  <2>5. \A w \in Nat : \A u \in 0 .. w - 1 : u \in Nat
    OBVIOUS
  <2>6. (v \div Word) * Word + (v % Word) = v
    <3>1. v % Word \in Nat
      BY <2>2, <2>5, WordIs
    <3>2. QED
      BY <2>2, <2>4, <3>1, WordIs
  <2>7. \A q, w \in Nat : q < w => q \in 0 .. w - 1
    OBVIOUS
  <2>8. QED
    BY <2>2, <2>3, <2>6, <2>7, WordIs DEF Words
<1> DEFINE upper == v \div Word
           lower == v % Word
<1>2. WriteUInt32(v) = Pair(upper) \o Pair(lower)
  BY DEF WriteUInt32, WriteUInt16
<1>3. upper \in Words /\ lower \in Words
  BY <1>1
<1> HIDE DEF upper, lower
<1>4. /\ Paired(Pair(upper), 1) /\ Paired(Pair(lower), 1)
      /\ Pair(upper) \in Seq(Int) /\ Len(Pair(upper)) = 2 /\ Pair(upper)[1] = upper
      /\ Pair(lower) \in Seq(Int) /\ Len(Pair(lower)) = 2 /\ Pair(lower)[1] = lower
  BY <1>3, PairIs
<1>5. Paired(Pair(upper) \o Pair(lower), 2)
  <2>1. Paired(Pair(upper) \o Pair(lower), 1 + 1)
    BY <1>4, WordsJoin
  <2>2. QED
    BY <2>1
<1>6. (Pair(upper) \o Pair(lower))[1] = upper /\ (Pair(upper) \o Pair(lower))[3] = lower
  <2>1. \A u, w \in Seq(Int) :
          /\ \A i \in 1 .. Len(u) : (u \o w)[i] = u[i]
          /\ \A i \in 1 .. Len(w) : (u \o w)[Len(u) + i] = w[i]
    OBVIOUS
  <2> DEFINE u == Pair(upper)
             w == Pair(lower)
  <2>2. u \in Seq(Int) /\ w \in Seq(Int) /\ Len(u) = 2 /\ Len(w) = 2 /\ u[1] = upper /\ w[1] = lower
    BY <1>4
  <2> HIDE DEF u, w
  <2>3. (u \o w)[1] = u[1] /\ (u \o w)[Len(u) + 1] = w[1] /\ Len(u) + 1 = 3
    <3>1. 1 \in 1 .. Len(u) /\ 1 \in 1 .. Len(w)
      BY <2>2
    <3>2. (u \o w)[1] = u[1] /\ (u \o w)[Len(u) + 1] = w[1]
      BY <2>1, <2>2, <3>1, Zenon
    <3>3. QED
      BY <2>2, <3>2
  <2>4. QED
    BY <2>2, <2>3 DEF u, w
<1>7. QED
  BY <1>1, <1>2, <1>5, <1>6 DEF upper, lower

LEMMA WrittenSigned ==
  ASSUME NEW v \in Int32
  PROVE  /\ v % (Word * Word) \in UInt32 /\ v \in Int
         /\ v = IF v % (Word * Word) \in Int32 THEN v % (Word * Word)
                ELSE (v % (Word * Word)) - Word * Word
<1>1. PICK m \in Nat \ {0} : m = Word * Word
  <2>1. \A w \in Nat \ {0} : w * w \in Nat \ {0}
    OBVIOUS
  <2>2. QED
    BY <2>1, WordIs
<1>2. v \in -(m \div 2) .. (m \div 2) - 1
  BY <1>1 DEF Int32
<1>3. PICK h \in Nat : h = m \div 2 /\ 2 * h <= m
  OBVIOUS
<1>4. v \in Int /\ -h <= v /\ v < h
  BY <1>2, <1>3
<1>5. v % m = IF v >= 0 THEN v ELSE v + m
  <2>1. CASE v >= 0
    BY <1>3, <1>4, <2>1
  <2>2. CASE ~(v >= 0)
    <3>1. v + m \in 0 .. m - 1
      BY <1>3, <1>4, <2>2
    <3>2. v = m * (-1) + (v + m)
      BY <1>4
    <3>3. v % m = v + m
      BY <1>4, <3>1, <3>2
    <3>4. QED
      BY <2>2, <3>3
  <2>3. QED
    BY <2>1, <2>2
<1>6. v % m \in 0 .. m - 1
  BY <1>3, <1>4, <1>5
<1>7. v = IF v % m \in -h .. h - 1 THEN v % m ELSE (v % m) - m
  BY <1>3, <1>4, <1>5
<1>8. QED
  BY <1>1, <1>3, <1>4, <1>6, <1>7 DEF UInt32, Int32

\* The word that two bytes of a UUID are written as.
WordOf(uuid, i) == uuid[2 * i - 1] * Byte + uuid[2 * i]

LEMMA WrittenUUID ==
  ASSUME NEW uuid \in UUID
  PROVE  /\ Paired(WriteUUID(uuid), UUIDWords)
         /\ \A i \in 1 .. UUIDWords :
              /\ WriteUUID(uuid)[2 * i - 1] = WordOf(uuid, i) /\ WordOf(uuid, i) \in Words
              /\ WordOf(uuid, i) % Byte = uuid[2 * i] /\ WordOf(uuid, i) \div Byte = uuid[2 * i - 1]
<1> DEFINE words == [i \in 1 .. UUIDWords |-> WriteUInt16(uuid[2 * i - 1] * Byte + uuid[2 * i])]
           ends == [i \in Nat |-> 2 * i]
<1>1. UUIDWords \in Nat /\ Byte \in Nat /\ Byte > 0
  BY SyncPacketAssumption
<1>2. ASSUME NEW i \in 1 .. UUIDWords
      PROVE  /\ WordOf(uuid, i) \in Words
             /\ WordOf(uuid, i) % Byte = uuid[2 * i] /\ WordOf(uuid, i) \div Byte = uuid[2 * i - 1]
  <2>1. 2 * i - 1 \in 1 .. 2 * UUIDWords /\ 2 * i \in 1 .. 2 * UUIDWords
    BY <1>1
  <2>2. PICK x, y \in 0 .. Byte - 1 : uuid[2 * i - 1] = x /\ uuid[2 * i] = y
    BY <1>1, <2>1 DEF UUID
  <2>3. x * Byte + y \in 0 .. Byte * Byte - 1
    <3>1. x * Byte <= (Byte - 1) * Byte
      BY <1>1
    <3>2. (Byte - 1) * Byte = Byte * Byte - Byte
      BY <1>1
    <3>3. x * Byte \in Nat /\ Byte * Byte \in Nat
      BY <1>1
    <3>4. QED
      BY <1>1, <3>1, <3>2, <3>3
  <2>4. (x * Byte + y) % Byte = y /\ (x * Byte + y) \div Byte = x
    BY <1>1
  <2>5. QED
    BY <2>2, <2>3, <2>4 DEF WordOf, Words, Word
<1>3. ASSUME NEW i \in 1 .. UUIDWords
      PROVE  words[i] = Pair(WordOf(uuid, i)) /\ words[i] \in Seq(Int) /\ Len(words[i]) = 2
  <2>1. words[i] = Pair(WordOf(uuid, i))
    BY DEF WriteUInt16, WordOf
  <2> HIDE DEF words
  <2> DEFINE v == WordOf(uuid, i)
  <2>2. v \in Words
    BY <1>2
  <2> HIDE DEF v
  <2>3. Pair(v) \in Seq(Int) /\ Len(Pair(v)) = 2
    BY <2>2, PairIs
  <2>4. words[i] = Pair(v)
    BY <2>1 DEF v
  <2>5. QED
    BY <2>1, <2>3, <2>4
<1>4. words \in Seq(Seq(Int)) /\ Len(words) = UUIDWords
  <2>1. words = [i \in 1 .. UUIDWords |-> words[i]]
    OBVIOUS
  <2> HIDE DEF words
  <2>2. words \in [1 .. UUIDWords -> Seq(Int)]
    BY <1>3, <2>1, Zenon
  <2>3. \A S : \A n \in Nat : \A g \in [1 .. n -> S] : g \in Seq(S) /\ Len(g) = n
    OBVIOUS
  <2>4. QED
    BY <1>1, <2>2, <2>3
<1>5. WriteUUID(uuid) = FlattenSeq(words)
  BY DEF WriteUUID
<1> HIDE DEF words
<1>6. ends[0] = 0 /\ \A k \in Nat : k < Len(words) => ends[k + 1] = ends[k] + Len(words[k + 1])
  <2>1. ASSUME NEW k \in Nat, k < Len(words)
        PROVE  ends[k + 1] = ends[k] + Len(words[k + 1])
    <3>1. k + 1 \in 1 .. UUIDWords
      BY <1>1, <1>4, <2>1
    <3>2. Len(words[k + 1]) = 2
      BY <1>3, <3>1
    <3>3. QED
      BY <3>2
  <2>2. ends[0] = 0
    OBVIOUS
  <2>3. QED
    BY <2>1, <2>2
<1>7. /\ Len(FlattenSeq(words)) = ends[Len(words)]
      /\ \A i \in 1 .. Len(words) : HasAt(FlattenSeq(words), ends[i - 1] + 1, words[i])
  <2> HIDE DEF ends
  <2>1. QED
    BY <1>4, <1>6, FlattenHas
<1>8. FlattenSeq(words) \in Seq(Int)
  BY <1>4, FlattenType
<1>9. ASSUME NEW i \in 1 .. UUIDWords
      PROVE  /\ WriteUUID(uuid)[2 * i - 1] = WordOf(uuid, i)
             /\ WriteUUID(uuid)[2 * i] = -WordOf(uuid, i)
  <2>1. HasAt(WriteUUID(uuid), ends[i - 1] + 1, Pair(WordOf(uuid, i)))
    BY <1>3, <1>4, <1>5, <1>7
  <2>2. ends[i - 1] = 2 * i - 2
    BY <1>1
  <2>3. /\ Len(Pair(WordOf(uuid, i))) = 2
        /\ Pair(WordOf(uuid, i))[1] = WordOf(uuid, i) /\ Pair(WordOf(uuid, i))[2] = -WordOf(uuid, i)
    BY <1>2, PairIs
  <2>4. 1 \in 1 .. 2 /\ 2 \in 1 .. 2 /\ (2 * i - 2 + 1) + 1 - 1 = 2 * i - 1 /\ (2 * i - 2 + 1) + 2 - 1 = 2 * i
    OBVIOUS
  <2> HIDE DEF ends
  <2>5. QED
    BY <2>1, <2>2, <2>3, <2>4 DEF HasAt
<1>10. Len(WriteUUID(uuid)) = 2 * UUIDWords
  BY <1>1, <1>4, <1>5, <1>7
<1>11. Paired(WriteUUID(uuid), UUIDWords)
  BY <1>2, <1>5, <1>8, <1>9, <1>10 DEF Paired
<1>12. QED
  BY <1>2, <1>9, <1>11

\* Whatever one sequence has, the other has there, too.
Within(s, t) == \A i \in Nat \ {0}, c \in Seq(Int) : HasAt(s, i, c) => HasAt(t, i, c)

\* A packet is the marker and the words of its members, each at its place.
LEMMA PacketHas ==
  ASSUME NEW p \in Sent, NEW s, s = WriteSyncPacket(p)
  PROVE  /\ Packed(s, 20 + 3 * UUIDWords)
         /\ HasAt(s, 3, WriteUInt16(PayloadWords))
         /\ HasAt(s, 5, WriteUInt16(p.flags))
         /\ HasAt(s, 7, WriteUInt32(p.timelineEditUnitIndex))
         /\ HasAt(s, 11, WriteUInt32(p.playoutID))
         /\ HasAt(s, 15, WriteUInt16(p.editUnitDuration))
         /\ HasAt(s, 17, WriteUInt32(p.sampleDurationEnum))
         /\ HasAt(s, 21, WriteUInt32(p.sampleDurationDenom))
         /\ HasAt(s, 25, WriteInt32(p.primaryPictureOutputOffset))
         /\ HasAt(s, 29, WriteUInt32(p.primaryPictureScreenOffset))
         /\ HasAt(s, 33, WriteUInt32(p.primaryPictureTrackFileEditUnitIndex))
         /\ HasAt(s, 37, WriteUUID(p.primaryPictureTrackFileUUID))
         /\ HasAt(s, 37 + 2 * UUIDWords, WriteUInt32(p.primarySoundTrackFileEditUnitIndex))
         /\ HasAt(s, 41 + 2 * UUIDWords, WriteUUID(p.primarySoundTrackFileUUID))
         /\ HasAt(s, 41 + 4 * UUIDWords, WriteUUID(p.compositionPlaylistUUID))
<1>1. p \in SyncPackets
  BY SEClientAssumption
<1>2. UUIDWords \in Nat /\ PayloadWords \in Words /\ UInt16 = Words
  BY WordIs, SyncPacketAssumption DEF PayloadWords, Words, UInt16
<1>3. /\ p.flags \in UInt16 /\ p.timelineEditUnitIndex \in UInt32 /\ p.playoutID \in UInt32
      /\ p.editUnitDuration \in UInt16 /\ p.sampleDurationEnum \in UInt32
      /\ p.sampleDurationDenom \in UInt32 /\ p.primaryPictureOutputOffset \in Int32
      /\ p.primaryPictureScreenOffset \in UInt32 /\ p.primaryPictureTrackFileEditUnitIndex \in UInt32
      /\ p.primarySoundTrackFileEditUnitIndex \in UInt32
      /\ p.primaryPictureTrackFileUUID \in UUID /\ p.primarySoundTrackFileUUID \in UUID
      /\ p.compositionPlaylistUUID \in UUID
  BY <1>1 DEF SyncPackets
<1>4. \A v \in Words : Paired(WriteUInt16(v), 1)
  BY PairIs DEF WriteUInt16
<1>5. \A v \in Int32 : Paired(WriteInt32(v), 2)
  BY WrittenSigned, Written32 DEF WriteInt32
<1> DEFINE a0 == WriteMarker
           a1 == a0 \o WriteUInt16(PayloadWords)
           a2 == a1 \o WriteUInt16(p.flags)
           a3 == a2 \o WriteUInt32(p.timelineEditUnitIndex)
           a4 == a3 \o WriteUInt32(p.playoutID)
           a5 == a4 \o WriteUInt16(p.editUnitDuration)
           a6 == a5 \o WriteUInt32(p.sampleDurationEnum)
           a7 == a6 \o WriteUInt32(p.sampleDurationDenom)
           a8 == a7 \o WriteInt32(p.primaryPictureOutputOffset)
           a9 == a8 \o WriteUInt32(p.primaryPictureScreenOffset)
           a10 == a9 \o WriteUInt32(p.primaryPictureTrackFileEditUnitIndex)
           a11 == a10 \o WriteUUID(p.primaryPictureTrackFileUUID)
           a12 == a11 \o WriteUInt32(p.primarySoundTrackFileEditUnitIndex)
           a13 == a12 \o WriteUUID(p.primarySoundTrackFileUUID)
           a14 == a13 \o WriteUUID(p.compositionPlaylistUUID)
<1>6. s = a14
  BY DEF WriteSyncPacket
<1>7. Packed(a0, 1)
  <2>1. \A x, y \in Int : <<x, y>> \in Seq(Int) /\ Len(<<x, y>>) = 2 * 1
    OBVIOUS
  <2>2. SyncMarker \in Int /\ -SyncMarker \in Int /\ WriteMarker = <<SyncMarker, -SyncMarker>>
    BY MarkerIs DEF WriteMarker, SyncMarker, Pair
  <2>3. \A j \in 2 .. 1 : FALSE
    OBVIOUS
  <2>4. QED
    BY <2>1, <2>2, <2>3 DEF Packed
<1>8. ASSUME NEW t, NEW m \in Nat \ {0}, Packed(t, m), NEW c, NEW n \in Nat, Paired(c, n)
      PROVE  Packed(t \o c, m + n) /\ Within(t, t \o c) /\ HasAt(t \o c, 2 * m + 1, c)
  <2>1. t \in Seq(Int) /\ c \in Seq(Int) /\ Len(t) = 2 * m
    BY <1>8 DEF Packed, Paired
  <2>2. Within(t, t \o c) /\ HasAt(t \o c, 2 * m + 1, c)
    BY <2>1, HasMore DEF Within
  <2>3. QED
    BY <1>8, <2>2, WordsJoin
<1> HIDE DEF a0
<1>9. /\ Packed(a1, 2) /\ Within(a0, a1)
      /\ HasAt(a1, 3, WriteUInt16(PayloadWords))
  <2> DEFINE c == WriteUInt16(PayloadWords)
  <2>1. Paired(c, 1)
    BY <1>2, <1>3, <1>4
  <2> HIDE DEF c
  <2>2. 1 \in Nat \ {0} /\ (1) + 1 = 2 /\ 2 * (1) + 1 = 3 /\ 1 \in Nat
    BY <1>2
  <2>3. /\ Packed(a0 \o c, (1) + 1) /\ Within(a0, a0 \o c)
        /\ HasAt(a0 \o c, 2 * (1) + 1, c)
    BY <1>8, <2>1, <2>2, <1>7
  <2>4. QED
    BY <2>2, <2>3 DEF c
<1> HIDE DEF a1
<1>10. /\ Packed(a2, 3) /\ Within(a1, a2)
      /\ HasAt(a2, 5, WriteUInt16(p.flags))
  <2> DEFINE c == WriteUInt16(p.flags)
  <2>1. Paired(c, 1)
    BY <1>2, <1>3, <1>4
  <2> HIDE DEF c
  <2>2. 2 \in Nat \ {0} /\ (2) + 1 = 3 /\ 2 * (2) + 1 = 5 /\ 1 \in Nat
    BY <1>2
  <2>3. /\ Packed(a1 \o c, (2) + 1) /\ Within(a1, a1 \o c)
        /\ HasAt(a1 \o c, 2 * (2) + 1, c)
    BY <1>8, <2>1, <2>2, <1>9
  <2>4. QED
    BY <2>2, <2>3 DEF c
<1> HIDE DEF a2
<1>11. /\ Packed(a3, 5) /\ Within(a2, a3)
      /\ HasAt(a3, 7, WriteUInt32(p.timelineEditUnitIndex))
  <2> DEFINE c == WriteUInt32(p.timelineEditUnitIndex)
  <2>1. Paired(c, 2)
    BY <1>2, <1>3, Written32
  <2> HIDE DEF c
  <2>2. 3 \in Nat \ {0} /\ (3) + 2 = 5 /\ 2 * (3) + 1 = 7 /\ 2 \in Nat
    BY <1>2
  <2>3. /\ Packed(a2 \o c, (3) + 2) /\ Within(a2, a2 \o c)
        /\ HasAt(a2 \o c, 2 * (3) + 1, c)
    BY <1>8, <2>1, <2>2, <1>10
  <2>4. QED
    BY <2>2, <2>3 DEF c
<1> HIDE DEF a3
<1>12. /\ Packed(a4, 7) /\ Within(a3, a4)
      /\ HasAt(a4, 11, WriteUInt32(p.playoutID))
  <2> DEFINE c == WriteUInt32(p.playoutID)
  <2>1. Paired(c, 2)
    BY <1>2, <1>3, Written32
  <2> HIDE DEF c
  <2>2. 5 \in Nat \ {0} /\ (5) + 2 = 7 /\ 2 * (5) + 1 = 11 /\ 2 \in Nat
    BY <1>2
  <2>3. /\ Packed(a3 \o c, (5) + 2) /\ Within(a3, a3 \o c)
        /\ HasAt(a3 \o c, 2 * (5) + 1, c)
    BY <1>8, <2>1, <2>2, <1>11
  <2>4. QED
    BY <2>2, <2>3 DEF c
<1> HIDE DEF a4
<1>13. /\ Packed(a5, 8) /\ Within(a4, a5)
      /\ HasAt(a5, 15, WriteUInt16(p.editUnitDuration))
  <2> DEFINE c == WriteUInt16(p.editUnitDuration)
  <2>1. Paired(c, 1)
    BY <1>2, <1>3, <1>4
  <2> HIDE DEF c
  <2>2. 7 \in Nat \ {0} /\ (7) + 1 = 8 /\ 2 * (7) + 1 = 15 /\ 1 \in Nat
    BY <1>2
  <2>3. /\ Packed(a4 \o c, (7) + 1) /\ Within(a4, a4 \o c)
        /\ HasAt(a4 \o c, 2 * (7) + 1, c)
    BY <1>8, <2>1, <2>2, <1>12
  <2>4. QED
    BY <2>2, <2>3 DEF c
<1> HIDE DEF a5
<1>14. /\ Packed(a6, 10) /\ Within(a5, a6)
      /\ HasAt(a6, 17, WriteUInt32(p.sampleDurationEnum))
  <2> DEFINE c == WriteUInt32(p.sampleDurationEnum)
  <2>1. Paired(c, 2)
    BY <1>2, <1>3, Written32
  <2> HIDE DEF c
  <2>2. 8 \in Nat \ {0} /\ (8) + 2 = 10 /\ 2 * (8) + 1 = 17 /\ 2 \in Nat
    BY <1>2
  <2>3. /\ Packed(a5 \o c, (8) + 2) /\ Within(a5, a5 \o c)
        /\ HasAt(a5 \o c, 2 * (8) + 1, c)
    BY <1>8, <2>1, <2>2, <1>13
  <2>4. QED
    BY <2>2, <2>3 DEF c
<1> HIDE DEF a6
<1>15. /\ Packed(a7, 12) /\ Within(a6, a7)
      /\ HasAt(a7, 21, WriteUInt32(p.sampleDurationDenom))
  <2> DEFINE c == WriteUInt32(p.sampleDurationDenom)
  <2>1. Paired(c, 2)
    BY <1>2, <1>3, Written32
  <2> HIDE DEF c
  <2>2. 10 \in Nat \ {0} /\ (10) + 2 = 12 /\ 2 * (10) + 1 = 21 /\ 2 \in Nat
    BY <1>2
  <2>3. /\ Packed(a6 \o c, (10) + 2) /\ Within(a6, a6 \o c)
        /\ HasAt(a6 \o c, 2 * (10) + 1, c)
    BY <1>8, <2>1, <2>2, <1>14
  <2>4. QED
    BY <2>2, <2>3 DEF c
<1> HIDE DEF a7
<1>16. /\ Packed(a8, 14) /\ Within(a7, a8)
      /\ HasAt(a8, 25, WriteInt32(p.primaryPictureOutputOffset))
  <2> DEFINE c == WriteInt32(p.primaryPictureOutputOffset)
  <2>1. Paired(c, 2)
    BY <1>2, <1>3, <1>5
  <2> HIDE DEF c
  <2>2. 12 \in Nat \ {0} /\ (12) + 2 = 14 /\ 2 * (12) + 1 = 25 /\ 2 \in Nat
    BY <1>2
  <2>3. /\ Packed(a7 \o c, (12) + 2) /\ Within(a7, a7 \o c)
        /\ HasAt(a7 \o c, 2 * (12) + 1, c)
    BY <1>8, <2>1, <2>2, <1>15
  <2>4. QED
    BY <2>2, <2>3 DEF c
<1> HIDE DEF a8
<1>17. /\ Packed(a9, 16) /\ Within(a8, a9)
      /\ HasAt(a9, 29, WriteUInt32(p.primaryPictureScreenOffset))
  <2> DEFINE c == WriteUInt32(p.primaryPictureScreenOffset)
  <2>1. Paired(c, 2)
    BY <1>2, <1>3, Written32
  <2> HIDE DEF c
  <2>2. 14 \in Nat \ {0} /\ (14) + 2 = 16 /\ 2 * (14) + 1 = 29 /\ 2 \in Nat
    BY <1>2
  <2>3. /\ Packed(a8 \o c, (14) + 2) /\ Within(a8, a8 \o c)
        /\ HasAt(a8 \o c, 2 * (14) + 1, c)
    BY <1>8, <2>1, <2>2, <1>16
  <2>4. QED
    BY <2>2, <2>3 DEF c
<1> HIDE DEF a9
<1>18. /\ Packed(a10, 18) /\ Within(a9, a10)
      /\ HasAt(a10, 33, WriteUInt32(p.primaryPictureTrackFileEditUnitIndex))
  <2> DEFINE c == WriteUInt32(p.primaryPictureTrackFileEditUnitIndex)
  <2>1. Paired(c, 2)
    BY <1>2, <1>3, Written32
  <2> HIDE DEF c
  <2>2. 16 \in Nat \ {0} /\ (16) + 2 = 18 /\ 2 * (16) + 1 = 33 /\ 2 \in Nat
    BY <1>2
  <2>3. /\ Packed(a9 \o c, (16) + 2) /\ Within(a9, a9 \o c)
        /\ HasAt(a9 \o c, 2 * (16) + 1, c)
    BY <1>8, <2>1, <2>2, <1>17
  <2>4. QED
    BY <2>2, <2>3 DEF c
<1> HIDE DEF a10
<1>19. /\ Packed(a11, 18 + UUIDWords) /\ Within(a10, a11)
      /\ HasAt(a11, 37, WriteUUID(p.primaryPictureTrackFileUUID))
  <2> DEFINE c == WriteUUID(p.primaryPictureTrackFileUUID)
  <2>1. Paired(c, UUIDWords)
    BY <1>2, <1>3, WrittenUUID
  <2> HIDE DEF c
  <2>2. 18 \in Nat \ {0} /\ (18) + UUIDWords = 18 + UUIDWords /\ 2 * (18) + 1 = 37 /\ UUIDWords \in Nat
    BY <1>2
  <2>3. /\ Packed(a10 \o c, (18) + UUIDWords) /\ Within(a10, a10 \o c)
        /\ HasAt(a10 \o c, 2 * (18) + 1, c)
    BY <1>8, <2>1, <2>2, <1>18
  <2>4. QED
    BY <2>2, <2>3 DEF c
<1> HIDE DEF a11
<1>20. /\ Packed(a12, 20 + UUIDWords) /\ Within(a11, a12)
      /\ HasAt(a12, 37 + 2 * UUIDWords, WriteUInt32(p.primarySoundTrackFileEditUnitIndex))
  <2> DEFINE c == WriteUInt32(p.primarySoundTrackFileEditUnitIndex)
  <2>1. Paired(c, 2)
    BY <1>2, <1>3, Written32
  <2> HIDE DEF c
  <2>2. /\ 18 + UUIDWords \in Nat \ {0} /\ (18 + UUIDWords) + 2 = 20 + UUIDWords
        /\ 2 * (18 + UUIDWords) + 1 = 37 + 2 * UUIDWords /\ 2 \in Nat
    BY <1>2
  <2>3. /\ Packed(a11 \o c, (18 + UUIDWords) + 2) /\ Within(a11, a11 \o c)
        /\ HasAt(a11 \o c, 2 * (18 + UUIDWords) + 1, c)
    BY <1>8, <2>1, <2>2, <1>19
  <2>4. QED
    BY <2>2, <2>3 DEF c
<1> HIDE DEF a12
<1>21. /\ Packed(a13, 20 + 2 * UUIDWords) /\ Within(a12, a13)
      /\ HasAt(a13, 41 + 2 * UUIDWords, WriteUUID(p.primarySoundTrackFileUUID))
  <2> DEFINE c == WriteUUID(p.primarySoundTrackFileUUID)
  <2>1. Paired(c, UUIDWords)
    BY <1>2, <1>3, WrittenUUID
  <2> HIDE DEF c
  <2>2. /\ 20 + UUIDWords \in Nat \ {0} /\ (20 + UUIDWords) + UUIDWords = 20 + 2 * UUIDWords
        /\ 2 * (20 + UUIDWords) + 1 = 41 + 2 * UUIDWords /\ UUIDWords \in Nat
    BY <1>2
  <2>3. /\ Packed(a12 \o c, (20 + UUIDWords) + UUIDWords) /\ Within(a12, a12 \o c)
        /\ HasAt(a12 \o c, 2 * (20 + UUIDWords) + 1, c)
    BY <1>8, <2>1, <2>2, <1>20
  <2>4. QED
    BY <2>2, <2>3 DEF c
<1> HIDE DEF a13
<1>22. /\ Packed(a14, 20 + 3 * UUIDWords) /\ Within(a13, a14)
      /\ HasAt(a14, 41 + 4 * UUIDWords, WriteUUID(p.compositionPlaylistUUID))
  <2> DEFINE c == WriteUUID(p.compositionPlaylistUUID)
  <2>1. Paired(c, UUIDWords)
    BY <1>2, <1>3, WrittenUUID
  <2> HIDE DEF c
  <2>2. /\ 20 + 2 * UUIDWords \in Nat \ {0} /\ (20 + 2 * UUIDWords) + UUIDWords = 20 + 3 * UUIDWords
        /\ 2 * (20 + 2 * UUIDWords) + 1 = 41 + 4 * UUIDWords /\ UUIDWords \in Nat
    BY <1>2
  <2>3. /\ Packed(a13 \o c, (20 + 2 * UUIDWords) + UUIDWords) /\ Within(a13, a13 \o c)
        /\ HasAt(a13 \o c, 2 * (20 + 2 * UUIDWords) + 1, c)
    BY <1>8, <2>1, <2>2, <1>21
  <2>4. QED
    BY <2>2, <2>3 DEF c
<1> HIDE DEF a14
<1>23. \A t, v, x : Within(t, v) /\ Within(v, x) => Within(t, x)
  BY DEF Within
<1>24. Within(a13, a14)
  BY <1>22
<1>25. Within(a12, a14)
  BY <1>23, <1>21, <1>24
<1>26. Within(a11, a14)
  BY <1>23, <1>20, <1>25
<1>27. Within(a10, a14)
  BY <1>23, <1>19, <1>26
<1>28. Within(a9, a14)
  BY <1>23, <1>18, <1>27
<1>29. Within(a8, a14)
  BY <1>23, <1>17, <1>28
<1>30. Within(a7, a14)
  BY <1>23, <1>16, <1>29
<1>31. Within(a6, a14)
  BY <1>23, <1>15, <1>30
<1>32. Within(a5, a14)
  BY <1>23, <1>14, <1>31
<1>33. Within(a4, a14)
  BY <1>23, <1>13, <1>32
<1>34. Within(a3, a14)
  BY <1>23, <1>12, <1>33
<1>35. Within(a2, a14)
  BY <1>23, <1>11, <1>34
<1>36. Within(a1, a14)
  BY <1>23, <1>10, <1>35
<1>37. \A i \in Nat : {i + 1} \subseteq Nat \ {0}
  OBVIOUS
<1>38. HasAt(a14, 3, WriteUInt16(PayloadWords))
  <2> DEFINE c == WriteUInt16(PayloadWords)
  <2>1. c \in Seq(Int)
    BY <1>2, <1>3, <1>4 DEF Paired
  <2> HIDE DEF c
  <2>2. HasAt(a1, 3, c) /\ 3 \in Nat \ {0}
    BY <1>2, <1>9 DEF c
  <2>3. HasAt(a14, 3, c)
    BY <1>36, <2>1, <2>2, Zenon DEF Within
  <2>4. QED
    BY <2>3 DEF c
<1>39. HasAt(a14, 5, WriteUInt16(p.flags))
  <2> DEFINE c == WriteUInt16(p.flags)
  <2>1. c \in Seq(Int)
    BY <1>2, <1>3, <1>4 DEF Paired
  <2> HIDE DEF c
  <2>2. HasAt(a2, 5, c) /\ 5 \in Nat \ {0}
    BY <1>2, <1>10 DEF c
  <2>3. HasAt(a14, 5, c)
    BY <1>35, <2>1, <2>2, Zenon DEF Within
  <2>4. QED
    BY <2>3 DEF c
<1>40. HasAt(a14, 7, WriteUInt32(p.timelineEditUnitIndex))
  <2> DEFINE c == WriteUInt32(p.timelineEditUnitIndex)
  <2>1. c \in Seq(Int)
    BY <1>2, <1>3, Written32 DEF Paired
  <2> HIDE DEF c
  <2>2. HasAt(a3, 7, c) /\ 7 \in Nat \ {0}
    BY <1>2, <1>11 DEF c
  <2>3. HasAt(a14, 7, c)
    BY <1>34, <2>1, <2>2, Zenon DEF Within
  <2>4. QED
    BY <2>3 DEF c
<1>41. HasAt(a14, 11, WriteUInt32(p.playoutID))
  <2> DEFINE c == WriteUInt32(p.playoutID)
  <2>1. c \in Seq(Int)
    BY <1>2, <1>3, Written32 DEF Paired
  <2> HIDE DEF c
  <2>2. HasAt(a4, 11, c) /\ 11 \in Nat \ {0}
    BY <1>2, <1>12 DEF c
  <2>3. HasAt(a14, 11, c)
    BY <1>33, <2>1, <2>2, Zenon DEF Within
  <2>4. QED
    BY <2>3 DEF c
<1>42. HasAt(a14, 15, WriteUInt16(p.editUnitDuration))
  <2> DEFINE c == WriteUInt16(p.editUnitDuration)
  <2>1. c \in Seq(Int)
    BY <1>2, <1>3, <1>4 DEF Paired
  <2> HIDE DEF c
  <2>2. HasAt(a5, 15, c) /\ 15 \in Nat \ {0}
    BY <1>2, <1>13 DEF c
  <2>3. HasAt(a14, 15, c)
    BY <1>32, <2>1, <2>2, Zenon DEF Within
  <2>4. QED
    BY <2>3 DEF c
<1>43. HasAt(a14, 17, WriteUInt32(p.sampleDurationEnum))
  <2> DEFINE c == WriteUInt32(p.sampleDurationEnum)
  <2>1. c \in Seq(Int)
    BY <1>2, <1>3, Written32 DEF Paired
  <2> HIDE DEF c
  <2>2. HasAt(a6, 17, c) /\ 17 \in Nat \ {0}
    BY <1>2, <1>14 DEF c
  <2>3. HasAt(a14, 17, c)
    BY <1>31, <2>1, <2>2, Zenon DEF Within
  <2>4. QED
    BY <2>3 DEF c
<1>44. HasAt(a14, 21, WriteUInt32(p.sampleDurationDenom))
  <2> DEFINE c == WriteUInt32(p.sampleDurationDenom)
  <2>1. c \in Seq(Int)
    BY <1>2, <1>3, Written32 DEF Paired
  <2> HIDE DEF c
  <2>2. HasAt(a7, 21, c) /\ 21 \in Nat \ {0}
    BY <1>2, <1>15 DEF c
  <2>3. HasAt(a14, 21, c)
    BY <1>30, <2>1, <2>2, Zenon DEF Within
  <2>4. QED
    BY <2>3 DEF c
<1>45. HasAt(a14, 25, WriteInt32(p.primaryPictureOutputOffset))
  <2> DEFINE c == WriteInt32(p.primaryPictureOutputOffset)
  <2>1. c \in Seq(Int)
    BY <1>2, <1>3, <1>5 DEF Paired
  <2> HIDE DEF c
  <2>2. HasAt(a8, 25, c) /\ 25 \in Nat \ {0}
    BY <1>2, <1>16 DEF c
  <2>3. HasAt(a14, 25, c)
    BY <1>29, <2>1, <2>2, Zenon DEF Within
  <2>4. QED
    BY <2>3 DEF c
<1>46. HasAt(a14, 29, WriteUInt32(p.primaryPictureScreenOffset))
  <2> DEFINE c == WriteUInt32(p.primaryPictureScreenOffset)
  <2>1. c \in Seq(Int)
    BY <1>2, <1>3, Written32 DEF Paired
  <2> HIDE DEF c
  <2>2. HasAt(a9, 29, c) /\ 29 \in Nat \ {0}
    BY <1>2, <1>17 DEF c
  <2>3. HasAt(a14, 29, c)
    BY <1>28, <2>1, <2>2, Zenon DEF Within
  <2>4. QED
    BY <2>3 DEF c
<1>47. HasAt(a14, 33, WriteUInt32(p.primaryPictureTrackFileEditUnitIndex))
  <2> DEFINE c == WriteUInt32(p.primaryPictureTrackFileEditUnitIndex)
  <2>1. c \in Seq(Int)
    BY <1>2, <1>3, Written32 DEF Paired
  <2> HIDE DEF c
  <2>2. HasAt(a10, 33, c) /\ 33 \in Nat \ {0}
    BY <1>2, <1>18 DEF c
  <2>3. HasAt(a14, 33, c)
    BY <1>27, <2>1, <2>2, Zenon DEF Within
  <2>4. QED
    BY <2>3 DEF c
<1>48. HasAt(a14, 37, WriteUUID(p.primaryPictureTrackFileUUID))
  <2> DEFINE c == WriteUUID(p.primaryPictureTrackFileUUID)
  <2>1. c \in Seq(Int)
    BY <1>2, <1>3, WrittenUUID DEF Paired
  <2> HIDE DEF c
  <2>2. HasAt(a11, 37, c) /\ 37 \in Nat \ {0}
    BY <1>2, <1>19 DEF c
  <2>3. HasAt(a14, 37, c)
    BY <1>26, <2>1, <2>2, Zenon DEF Within
  <2>4. QED
    BY <2>3 DEF c
<1>49. HasAt(a14, 37 + 2 * UUIDWords, WriteUInt32(p.primarySoundTrackFileEditUnitIndex))
  <2> DEFINE c == WriteUInt32(p.primarySoundTrackFileEditUnitIndex)
  <2>1. c \in Seq(Int)
    BY <1>2, <1>3, Written32 DEF Paired
  <2> HIDE DEF c
  <2>2. HasAt(a12, 37 + 2 * UUIDWords, c) /\ 37 + 2 * UUIDWords \in Nat \ {0}
    BY <1>2, <1>20 DEF c
  <2>3. HasAt(a14, 37 + 2 * UUIDWords, c)
    BY <1>25, <2>1, <2>2, Zenon DEF Within
  <2>4. QED
    BY <2>3 DEF c
<1>50. HasAt(a14, 41 + 2 * UUIDWords, WriteUUID(p.primarySoundTrackFileUUID))
  <2> DEFINE c == WriteUUID(p.primarySoundTrackFileUUID)
  <2>1. c \in Seq(Int)
    BY <1>2, <1>3, WrittenUUID DEF Paired
  <2> HIDE DEF c
  <2>2. HasAt(a13, 41 + 2 * UUIDWords, c) /\ 41 + 2 * UUIDWords \in Nat \ {0}
    BY <1>2, <1>21 DEF c
  <2>3. HasAt(a14, 41 + 2 * UUIDWords, c)
    BY <1>24, <2>1, <2>2, Zenon DEF Within
  <2>4. QED
    BY <2>3 DEF c
<1>51. QED
  BY <1>6, <1>22, <1>38, <1>39, <1>40, <1>41, <1>42, <1>43, <1>44, <1>45, <1>46, <1>47, <1>48, <1>49, <1>50

\* A sample that is no marker.
Small == {v \in Int : v < Word}

\* A packet is written as payloadDuration samples: the marker and its tail, and what can
\* be taken for neither; its duration is the word behind the first ten samples of members.
LEMMA WrittenPacket ==
  ASSUME NEW p \in Sent
  PROVE  /\ Written[p] \in Seq(Int) /\ Len(Written[p]) = payloadDuration
         /\ Written[p][1] = SyncMarker /\ Written[p][2] = -SyncMarker
         /\ \A i \in 3 .. payloadDuration : Written[p][i] \in Small
         /\ Written[p][15] = p.editUnitDuration
<1> DEFINE s == Written[p]
<1>1. s = WriteSyncPacket(p)
  BY DEF Written
<1> HIDE DEF s
<1>2. Packed(s, 20 + 3 * UUIDWords) /\ HasAt(s, 15, WriteUInt16(p.editUnitDuration))
  BY <1>1, PacketHas
<1>3. UUIDWords \in Nat /\ 2 * (20 + 3 * UUIDWords) = payloadDuration
  BY SyncPacketAssumption, PayloadIs
<1>4. ASSUME NEW i \in 3 .. payloadDuration
      PROVE  s[i] \in Small
  <2>1. PICK j \in 2 .. 20 + 3 * UUIDWords : i = 2 * j - 1 \/ i = 2 * j
    <3>1. /\ (i + 1) \div 2 \in 2 .. 20 + 3 * UUIDWords
          /\ i = 2 * ((i + 1) \div 2) - 1 \/ i = 2 * ((i + 1) \div 2)
      <4>1. \A k \in Nat : /\ (k + 1) \div 2 \in Nat
                           /\ k = 2 * ((k + 1) \div 2) - 1 \/ k = 2 * ((k + 1) \div 2)
        OBVIOUS
      <4> DEFINE h == (i + 1) \div 2
      <4>2. h \in Nat /\ (i = 2 * h - 1 \/ i = 2 * h)
        BY <1>3, <4>1
      <4> HIDE DEF h
      <4>3. h \in 2 .. 20 + 3 * UUIDWords
        BY <1>3, <4>2
      <4>4. QED
        BY <4>2, <4>3 DEF h
    <3>2. QED
      BY <3>1
  <2>2. s[2 * j - 1] \in Words /\ s[2 * j] = -s[2 * j - 1]
    BY <1>2 DEF Packed
  <2>3. QED
    BY <2>1, <2>2, WordIs DEF Words, Small
<1>5. s[15] = p.editUnitDuration
  <2>1. \A x, y : <<x, y>>[1] = x /\ Len(<<x, y>>) = 2
    OBVIOUS
  <2>2. /\ 1 \in 1 .. Len(WriteUInt16(p.editUnitDuration))
        /\ WriteUInt16(p.editUnitDuration)[1] = p.editUnitDuration
    BY <2>1 DEF WriteUInt16, Pair
  <2>3. 15 + 1 - 1 = 15
    OBVIOUS
  <2>4. QED
    BY <1>2, <2>2, <2>3 DEF HasAt
<1>6. QED
  BY <1>2, <1>3, <1>4, <1>5 DEF Packed, s

-----------------------------------------------------------------------------
(* Types and bounds.                                                       *)

\* The duration of a packet that is accepted is that of one that was sent.
DurationsAreSent ==
  checking /\ offsetIntoFrame = payloadDuration /\ ValidatePayload =>
    ReadSyncPacket(frame).editUnitDuration \in {0} \cup {p.editUnitDuration : p \in Sent}

Buffers == [0 .. bufferSize - 1 -> Int]

BufferTypes ==
  /\ bufferSize \in Nat \ {0}
  /\ currentAudioBuffer \in Buffers
  /\ currentSample \in Nat /\ currentSample <= bufferSize

FrameTypes ==
  /\ currentFrameDuration \in Nat /\ currentFrameDuration > payloadDuration
  /\ frame \in [0 .. currentFrameDuration - 1 -> Int]
  /\ offsetIntoFrame \in Nat /\ offsetIntoFrame <= currentFrameDuration

\* While a marker or its tail is looked for, the frame holds none, or one sample.
SearchInv ==
  /\ lookingForSyncMarker => offsetIntoFrame = 0
  /\ ~lookingForSyncMarker => offsetIntoFrame > 0 /\ frame[0] = SyncMarker
  /\ ~lookingForSyncMarker /\ lookingForSyncMarker2sComplement => offsetIntoFrame = 1

Owes == Sent \cup {NothingOwed}
Queued == [samples : Buffers, owed : Owes]
QueueTypes == sampleQueue \in Seq(Queued) /\ popped \in Seq(Queued)

LineTypes == packet \in Sent /\ at \in Nat /\ owed \in Owes

BoundsInv == BufferTypes /\ FrameTypes /\ SearchInv /\ QueueTypes /\ LineTypes

LEMMA DurationIs == \A p \in Sent : p.editUnitDuration \in Nat
<1> SUFFICES ASSUME NEW p \in Sent PROVE p.editUnitDuration \in Nat
  OBVIOUS
<1>1. p.editUnitDuration \in UInt16
  BY SEClientAssumption DEF SyncPackets
<1>2. \A w \in Nat \ {0} : 0 .. w - 1 \subseteq Nat
  OBVIOUS
<1>3. UInt16 \subseteq Nat
  BY <1>2, WordIs DEF UInt16
<1>4. QED
  BY <1>1, <1>3

\* What is assumed of the durations, where it is.
LEMMA FillIs ==
  ASSUME FramesHaveFill
  PROVE  \A p \in Sent : p.editUnitDuration > payloadDuration
BY DEF FramesHaveFill, HasFill

LEMMA LongIs ==
  ASSUME BuffersAreShort
  PROVE  \A p \in Sent, b \in BufferSizes : p.editUnitDuration > b
BY DEF BuffersAreShort

LEMMA SampleType ==
  ASSUME NEW p \in Sent, NEW i \in Nat
  PROVE  SampleAt(p, i) \in Int
<1>1. \A s \in Seq(Int) : i < Len(s) => s[i + 1] \in Int
  OBVIOUS
<1>2. QED
  BY <1>1, WrittenPacket, PayloadIs DEF SampleAt

LEMMA LineType ==
  ASSUME LineTypes, BufferTypes, NEW next \in Sent
  PROVE  LineSamples(next) \in Buffers
<1>1. packet.editUnitDuration \in Nat /\ bufferSize \in Nat /\ at \in Nat /\ packet \in Sent
  BY DurationIs DEF LineTypes, BufferTypes
<1>2. ASSUME NEW i \in 0 .. bufferSize - 1
      PROVE  /\ at + i < packet.editUnitDuration => SampleAt(packet, at + i) \in Int
             /\ ~(at + i < packet.editUnitDuration) =>
                  SampleAt(next, at + i - packet.editUnitDuration) \in Int
  <2>1. /\ at + i \in Nat
        /\ ~(at + i < packet.editUnitDuration) => at + i - packet.editUnitDuration \in Nat
    BY <1>1
  <2>2. QED
    BY <1>1, <2>1, SampleType
<1>3. QED
  BY <1>2 DEF LineSamples, Buffers

LEMMA CopiedIs ==
  ASSUME BufferTypes, NEW m \in Nat, NEW f \in [0 .. m - 1 -> Int],
         NEW offset \in Nat, NEW from \in Nat, NEW n \in Nat, from + n <= bufferSize
  PROVE  /\ Copied(f, offset, from, n) \in [0 .. m - 1 -> Int]
         /\ \A i \in 0 .. m - 1 :
              Copied(f, offset, from, n)[i] =
                IF offset <= i /\ i < offset + n THEN currentAudioBuffer[from + i - offset]
                ELSE f[i]
<1>1. ASSUME NEW i \in 0 .. m - 1, offset <= i, i < offset + n
      PROVE  currentAudioBuffer[from + i - offset] \in Int
  <2>1. from + i - offset \in 0 .. bufferSize - 1
    BY <1>1 DEF BufferTypes
  <2>2. QED
    BY <2>1 DEF BufferTypes, Buffers
<1>2. QED
  BY <1>1 DEF Copied

LEMMA ZerosType ==
  ASSUME NEW n \in Nat
  PROVE  Zeros(n) \in [0 .. n - 1 -> Int] /\ \A i \in 0 .. n - 1 : Zeros(n)[i] = 0
BY DEF Zeros

\* The frame goes on with the buffer's next n samples.
Taken(n) ==
  /\ n \in Nat /\ currentSample + n <= bufferSize /\ offsetIntoFrame + n <= currentFrameDuration
  /\ currentSample' = currentSample + n /\ offsetIntoFrame' = offsetIntoFrame + n
  /\ UNCHANGED currentFrameDuration
  /\ frame' \in [0 .. currentFrameDuration - 1 -> Int]
  /\ \A i \in 0 .. currentFrameDuration - 1 :
       frame'[i] = IF offsetIntoFrame <= i /\ i < offsetIntoFrame + n
                   THEN currentAudioBuffer[currentSample + i - offsetIntoFrame]
                   ELSE frame[i]

Takings == FindMarkerAndTail \/ FindMarkerAtTheEnd \/ FindTail \/ TakeSamples

\* All that take samples of a frame do that: a marker that is found is the next sample.
LEMMA TakingsTake ==
  ASSUME BufferTypes, FrameTypes, SearchInv, Takings
  PROVE  \E n : Taken(n)
<1>1. /\ bufferSize \in Nat /\ currentSample \in Nat /\ offsetIntoFrame \in Nat
      /\ currentFrameDuration \in Nat /\ currentFrameDuration > payloadDuration
      /\ payloadDuration \in Nat /\ payloadDuration > 40 /\ offsetIntoFrame <= currentFrameDuration
      /\ frame \in [0 .. currentFrameDuration - 1 -> Int]
  BY PayloadIs DEF BufferTypes, FrameTypes
<1>2. ASSUME NEW n \in Nat, currentSample + n <= bufferSize,
             offsetIntoFrame + n <= currentFrameDuration,
             frame' = Copied(frame, offsetIntoFrame, currentSample, n),
             offsetIntoFrame' = offsetIntoFrame + n, currentSample' = currentSample + n,
             UNCHANGED currentFrameDuration
      PROVE  Taken(n)
  BY <1>1, <1>2, CopiedIs DEF Taken
<1>3. CASE FindMarkerAndTail
  <2> DEFINE n == SamplesWithTail(currentSample + 1)
             f == [frame EXCEPT ![0] = SyncMarker]
  <2>1. /\ currentSample + 1 < bufferSize
        /\ frame' = Copied(f, 1, currentSample + 1, n)
        /\ offsetIntoFrame' = 1 + n
        /\ currentSample' = currentSample + 1 + n
        /\ currentAudioBuffer[currentSample] = SyncMarker
        /\ lookingForSyncMarker /\ UNCHANGED currentFrameDuration
    BY <1>3 DEF FindMarkerAndTail, FindsMarker, Takes, IsMarker
  <2>2. n \in Nat /\ 1 + n <= payloadDuration /\ currentSample + 1 + n <= bufferSize
    BY <1>1, <2>1 DEF SamplesWithTail
  <2> HIDE DEF n
  <2>3. /\ f \in [0 .. currentFrameDuration - 1 -> Int]
        /\ \A i \in 0 .. currentFrameDuration - 1 : f[i] = IF i = 0 THEN SyncMarker ELSE frame[i]
    BY <1>1, MarkerIs
  <2> HIDE DEF f
  <2>4. /\ Copied(f, 1, currentSample + 1, n) \in [0 .. currentFrameDuration - 1 -> Int]
        /\ \A i \in 0 .. currentFrameDuration - 1 :
             Copied(f, 1, currentSample + 1, n)[i] =
               IF 1 <= i /\ i < 1 + n THEN currentAudioBuffer[(currentSample + 1) + i - 1] ELSE f[i]
    <3> DEFINE from == currentSample + 1
    <3>1. from \in Nat /\ from + n <= bufferSize /\ 1 \in Nat
      BY <1>1, <2>2
    <3> HIDE DEF from
    <3>2. /\ Copied(f, 1, from, n) \in [0 .. currentFrameDuration - 1 -> Int]
          /\ \A i \in 0 .. currentFrameDuration - 1 :
               Copied(f, 1, from, n)[i] =
                 IF 1 <= i /\ i < 1 + n THEN currentAudioBuffer[from + i - 1] ELSE f[i]
      <4>1. currentFrameDuration \in Nat /\ n \in Nat /\ f \in [0 .. currentFrameDuration - 1 -> Int]
        BY <1>1, <2>2, <2>3
      <4>2. QED
        BY <3>1, <4>1, CopiedIs
    <3>3. QED
      BY <3>2 DEF from
  <2>5. offsetIntoFrame = 0
    BY <2>1 DEF SearchInv
  <2>6. ASSUME NEW i \in 0 .. currentFrameDuration - 1
        PROVE  frame'[i] = IF offsetIntoFrame <= i /\ i < offsetIntoFrame + (1 + n)
                           THEN currentAudioBuffer[currentSample + i - offsetIntoFrame] ELSE frame[i]
    <3>1. frame'[i] = IF 1 <= i /\ i < 1 + n THEN currentAudioBuffer[(currentSample + 1) + i - 1] ELSE f[i]
      BY <2>1, <2>4
    <3>2. (currentSample + 1) + i - 1 = currentSample + i - 0
      BY <1>1
    <3>3. CASE i = 0
      <4>1. currentSample + i - 0 = currentSample
        BY <1>1, <3>3
      <4>2. f[i] = SyncMarker
        BY <2>3, <3>3
      <4>3. QED
        BY <2>1, <2>2, <2>5, <3>1, <3>3, <4>1, <4>2
    <3>4. CASE i # 0
      <4>1. f[i] = frame[i]
        BY <2>3, <3>4
      <4>2. QED
        BY <2>2, <2>5, <3>1, <3>2, <3>4, <4>1
    <3>5. QED
      BY <3>3, <3>4
  <2>7. frame' \in [0 .. currentFrameDuration - 1 -> Int]
    BY <2>1, <2>4
  <2>8. Taken(1 + n)
    BY <1>1, <2>1, <2>2, <2>5, <2>6, <2>7 DEF Taken
  <2>9. QED
    BY <2>8
<1>4. CASE FindMarkerAtTheEnd
  <2>1. /\ currentSample + 1 = bufferSize /\ currentSample' = currentSample + 1
        /\ frame' = [frame EXCEPT ![0] = SyncMarker] /\ offsetIntoFrame' = 1
        /\ currentAudioBuffer[currentSample] = SyncMarker
        /\ lookingForSyncMarker /\ UNCHANGED currentFrameDuration
    BY <1>4 DEF FindMarkerAtTheEnd, FindsMarker, Takes, IsMarker
  <2>2. offsetIntoFrame = 0
    BY <2>1 DEF SearchInv
  <2>3. /\ frame' \in [0 .. currentFrameDuration - 1 -> Int]
        /\ \A i \in 0 .. currentFrameDuration - 1 :
             frame'[i] = IF i = 0 THEN SyncMarker ELSE frame[i]
    BY <1>1, <2>1, MarkerIs
  <2>4. ASSUME NEW i \in 0 .. currentFrameDuration - 1
        PROVE  frame'[i] = IF offsetIntoFrame <= i /\ i < offsetIntoFrame + 1
                           THEN currentAudioBuffer[currentSample + i - offsetIntoFrame] ELSE frame[i]
    <3>1. i = 0 => currentSample + i - 0 = currentSample
      BY <1>1
    <3>2. QED
      BY <2>1, <2>2, <2>3, <3>1
  <2>5. Taken(1)
    BY <1>1, <2>1, <2>2, <2>3, <2>4 DEF Taken
  <2>6. QED
    BY <2>5
<1>5. CASE FindTail
  <2> DEFINE n == SamplesWithTail(currentSample)
  <2>1. /\ currentSample < bufferSize
        /\ frame' = Copied(frame, offsetIntoFrame, currentSample, n)
        /\ offsetIntoFrame' = offsetIntoFrame + n /\ currentSample' = currentSample + n
        /\ ~lookingForSyncMarker /\ lookingForSyncMarker2sComplement
        /\ UNCHANGED currentFrameDuration
    BY <1>5 DEF FindTail, Takes
  <2>2. n \in Nat /\ 1 + n <= payloadDuration /\ currentSample + n <= bufferSize
    BY <1>1, <2>1 DEF SamplesWithTail
  <2> HIDE DEF n
  <2>3. offsetIntoFrame = 1
    BY <2>1 DEF SearchInv
  <2>4. offsetIntoFrame + n <= currentFrameDuration
    BY <1>1, <2>2, <2>3
  <2>5. Taken(n)
    BY <1>2, <2>1, <2>2, <2>4
  <2>6. QED
    BY <2>5
<1>6. CASE TakeSamples
  <2> DEFINE available == bufferSize - currentSample
             n == IF available > SamplesNeeded THEN SamplesNeeded ELSE available
  <2>1. /\ currentSample < bufferSize
        /\ frame' = Copied(frame, offsetIntoFrame, currentSample, n)
        /\ offsetIntoFrame' = offsetIntoFrame + n /\ currentSample' = currentSample + n
        /\ UNCHANGED currentFrameDuration
    BY <1>6 DEF TakeSamples, Takes
  <2>2. n \in Nat /\ offsetIntoFrame + n <= currentFrameDuration /\ currentSample + n <= bufferSize
    <3>1. SamplesNeeded \in Nat /\ offsetIntoFrame + SamplesNeeded <= currentFrameDuration
      BY <1>1 DEF SamplesNeeded
    <3>2. available \in Nat /\ currentSample + available = bufferSize
      BY <1>1, <2>1
    <3> HIDE DEF available
    <3>3. QED
      BY <1>1, <3>1, <3>2
  <2> HIDE DEF n
  <2>3. Taken(n)
    BY <1>2, <2>1, <2>2
  <2>4. QED
    BY <2>3
<1>7. QED
  BY <1>3, <1>4, <1>5, <1>6 DEF Takings

\* The frame is empty again.
LEMMA ResetBounds ==
  ASSUME FrameTypes, ResetFrame
  PROVE  FrameTypes' /\ SearchInv'
<1>1. /\ offsetIntoFrame' = 0 /\ lookingForSyncMarker' = TRUE
      /\ currentFrameDuration' = currentFrameDuration /\ frame' = Zeros(currentFrameDuration)
  BY DEF ResetFrame
<1>2. currentFrameDuration \in Nat /\ currentFrameDuration > payloadDuration
  BY DEF FrameTypes
<1>3. QED
  BY <1>1, <1>2, ZerosType DEF FrameTypes, SearchInv

LEMMA ParseKeepsBuffer ==
  ASSUME ParseFrames
  PROVE  UNCHANGED bufferSize /\ UNCHANGED currentAudioBuffer
BY DEF ParseFrames, FindMarkerAndTail, FindMarkerWithoutTail, FindMarkerAtTheEnd, FindsMarker, FindTail,
   MissTail, SkipSilence, SkipSample, TakeSamples, Takes, HandlePayload, RejectPayload, HandleFrame,
   ShuffleFrame, RejectFrame, Continue, Checks, bufferVars

LEMMA ParseBounds ==
  ASSUME FramesHaveFill, BufferTypes, FrameTypes, SearchInv, DurationsAreSent, ParseFrames
  PROVE  BufferTypes' /\ FrameTypes' /\ SearchInv'
<1> USE PayloadIs, MarkerIs
<1>1. CASE Takings
  <2>1. PICK n : Taken(n)
    BY <1>1, TakingsTake
  <2>2. BufferTypes'
    BY <2>1, ParseKeepsBuffer DEF BufferTypes, Buffers, Taken
  <2>3. FrameTypes'
    BY <2>1 DEF FrameTypes, Taken
  <2>4. 0 \in 0 .. currentFrameDuration - 1
    BY DEF FrameTypes
  <2>5. CASE offsetIntoFrame = 0
    <3>1. FindMarkerAndTail \/ FindMarkerAtTheEnd
      BY <1>1, <2>5 DEF Takings, FindTail, Takes, TakeSamples, Searching, SearchInv
    <3>2. /\ currentAudioBuffer[currentSample] = SyncMarker
          /\ lookingForSyncMarker' = FALSE
          /\ \/ lookingForSyncMarker2sComplement' = FALSE
             \/ currentSample' = currentSample + 1
          /\ currentSample' # currentSample
      <4>1. SamplesWithTail(currentSample + 1) \in Nat \/ ~FindMarkerAndTail
        BY DEF SamplesWithTail, BufferTypes, FindMarkerAndTail
      <4>2. QED
        BY <3>1, <4>1 DEF FindMarkerAndTail, FindMarkerAtTheEnd, FindsMarker, IsMarker, BufferTypes
    <3>3. n > 0 /\ (lookingForSyncMarker2sComplement' => n = 1)
      BY <2>1, <3>2 DEF Taken, BufferTypes
    <3>4. currentSample + 0 - offsetIntoFrame = currentSample
      BY <2>5 DEF BufferTypes
    <3>5. frame'[0] = SyncMarker
      BY <2>1, <2>4, <2>5, <3>2, <3>3, <3>4 DEF Taken
    <3>6. offsetIntoFrame' = n
      BY <2>1, <2>5 DEF Taken
    <3>7. QED
      BY <2>2, <2>3, <3>2, <3>3, <3>5, <3>6 DEF SearchInv
  <2>6. CASE offsetIntoFrame # 0
    <3>1. FindTail \/ TakeSamples
      BY <1>1, <2>6 DEF Takings, FindMarkerAndTail, FindMarkerAtTheEnd, FindsMarker, SearchInv
    <3>2. ~lookingForSyncMarker' /\ ~lookingForSyncMarker2sComplement' /\ ~lookingForSyncMarker
      BY <3>1 DEF FindTail, Takes, TakeSamples, Searching, searchVars
    <3>3. ~(offsetIntoFrame <= 0) /\ offsetIntoFrame' > 0
      BY <2>1, <2>6 DEF FrameTypes, Taken
    <3>4. frame'[0] = frame[0]
      BY <2>1, <2>4, <3>3 DEF Taken
    <3>5. QED
      BY <2>2, <2>3, <3>2, <3>3, <3>4 DEF SearchInv
  <2>7. QED
    BY <2>5, <2>6
<1>2. CASE FindMarkerWithoutTail
  <2>1. currentSample + 1 < bufferSize /\ currentSample' = currentSample + 1 /\ UNCHANGED bufferVars
        /\ ResetFrame
    BY <1>2 DEF FindMarkerWithoutTail, FindsMarker, Takes
  <2>2. BufferTypes'
    BY <2>1 DEF BufferTypes, Buffers, bufferVars
  <2>3. QED
    BY <2>1, <2>2, ResetBounds
<1>5. CASE MissTail
  <2>1. UNCHANGED currentSample /\ UNCHANGED bufferVars /\ ResetFrame
    BY <1>5 DEF MissTail, Takes
  <2>2. BufferTypes'
    BY <2>1 DEF BufferTypes, Buffers, bufferVars
  <2>3. QED
    BY <2>1, <2>2, ResetBounds
<1>6. CASE SkipSilence \/ SkipSample
  <2>1. /\ currentSample < bufferSize
        /\ currentSample' = currentSample + SamplesToTest \/ currentSample' = currentSample + 1
        /\ UNCHANGED bufferVars /\ UNCHANGED frameVars /\ UNCHANGED searchVars
    BY <1>6 DEF SkipSilence, SkipSample, Takes
  <2>2. BufferTypes'
    BY <2>1 DEF BufferTypes, Buffers, bufferVars, SamplesToTest
  <2>3. QED
    BY <2>1, <2>2 DEF FrameTypes, SearchInv, frameVars, searchVars
<1>8. ASSUME UNCHANGED bufferVars, UNCHANGED currentSample
      PROVE  BufferTypes'
  BY <1>8 DEF BufferTypes, Buffers, bufferVars
<1>9. CASE HandlePayload
  <2> DEFINE duration == ReadSyncPacket(frame).editUnitDuration
  <2>1. /\ checking /\ offsetIntoFrame = payloadDuration /\ ValidatePayload
        /\ duration # 0 /\ currentFrameDuration' = duration
        /\ frame' = IF duration = currentFrameDuration THEN frame
                    ELSE [i \in 0 .. duration - 1 |->
                            IF i < payloadDuration THEN frame[i] ELSE Garbage]
        /\ UNCHANGED bufferVars /\ UNCHANGED currentSample
        /\ UNCHANGED offsetIntoFrame /\ UNCHANGED searchVars
    BY <1>9 DEF HandlePayload, Checks
  <2>2. duration \in {p.editUnitDuration : p \in Sent}
    BY <2>1 DEF DurationsAreSent
  <2>3. duration \in Nat /\ duration > payloadDuration
    BY <2>2, DurationIs, FillIs
  <2> HIDE DEF duration
  <2>4. frame' \in [0 .. duration - 1 -> Int] /\ frame'[0] = frame[0]
    <3>1. Garbage \in Int
      BY FrameValidatorAssumption
    <3>2. CASE duration = currentFrameDuration
      BY <2>1, <3>2 DEF FrameTypes
    <3>3. CASE duration # currentFrameDuration
      <4>1. \A i \in 0 .. duration - 1 : i < payloadDuration => frame[i] \in Int
        BY DEF FrameTypes
      <4>2. QED
        BY <2>1, <2>3, <3>1, <3>3, <4>1
    <3>4. QED
      BY <3>2, <3>3
  <2>5. FrameTypes'
    BY <2>1, <2>3, <2>4 DEF FrameTypes
  <2>6. SearchInv'
    BY <2>1, <2>4 DEF SearchInv, searchVars
  <2>7. QED
    BY <1>8, <2>1, <2>5, <2>6
<1>10. CASE RejectPayload \/ HandleFrame \/ RejectFrame
  <2>1. ResetFrame /\ UNCHANGED bufferVars /\ UNCHANGED currentSample
    BY <1>10 DEF RejectPayload, HandleFrame, RejectFrame, Checks
  <2>2. QED
    BY <1>8, <2>1, ResetBounds
<1>11. CASE ShuffleFrame
  <2>1. PICK first \in LaterMarkers :
          /\ frame' = [i \in DOMAIN frame |->
                         IF i + first < currentFrameDuration THEN frame[i + first] ELSE 0]
          /\ offsetIntoFrame' = currentFrameDuration - first
          /\ lookingForSyncMarker2sComplement' =
               (lookingForSyncMarker2sComplement \/ first = currentFrameDuration - 1)
    BY <1>11 DEF ShuffleFrame
  <2>2. /\ FrameFull /\ UNCHANGED bufferVars /\ UNCHANGED currentSample
        /\ UNCHANGED currentFrameDuration /\ UNCHANGED lookingForSyncMarker
    BY <1>11 DEF ShuffleFrame, Checks
  <2>3. first \in 2 .. currentFrameDuration - 1 /\ frame[first] = SyncMarker
    BY <2>1 DEF LaterMarkers, IsMarker
  <2>4. ~lookingForSyncMarker /\ ~lookingForSyncMarker2sComplement
    BY <2>2 DEF FrameFull, SearchInv, FrameTypes
  <2>5. FrameTypes' /\ frame'[0] = SyncMarker
    <3>1. DOMAIN frame = 0 .. currentFrameDuration - 1
      BY DEF FrameTypes
    <3>2. \A i \in 0 .. currentFrameDuration - 1 :
            i + first < currentFrameDuration => frame[i + first] \in Int
      BY <2>3 DEF FrameTypes
    <3>3. frame' \in [0 .. currentFrameDuration - 1 -> Int]
      BY <2>1, <3>1, <3>2
    <3>4. frame'[0] = SyncMarker
      BY <2>1, <2>3, <3>1 DEF FrameTypes
    <3>5. offsetIntoFrame' \in Nat /\ offsetIntoFrame' <= currentFrameDuration
      BY <2>1, <2>3 DEF FrameTypes
    <3>6. FrameTypes'
      BY <2>2, <3>3, <3>5 DEF FrameTypes
    <3>7. QED
      BY <3>4, <3>6, Zenon
  <2>6. SearchInv'
    <3>1. offsetIntoFrame' > 0 /\ (first = currentFrameDuration - 1 => offsetIntoFrame' = 1)
      BY <2>1, <2>3 DEF FrameTypes
    <3>2. lookingForSyncMarker2sComplement' => offsetIntoFrame' = 1
      BY <2>1, <2>4, <3>1, Zenon
    <3>3. QED
      BY <2>2, <2>4, <2>5, <3>1, <3>2, Zenon DEF SearchInv
  <2>7. QED
    BY <1>8, <2>2, <2>5, <2>6
<1>12. CASE Continue
  <2>1. /\ UNCHANGED bufferVars /\ UNCHANGED currentSample
        /\ UNCHANGED frameVars /\ UNCHANGED searchVars
    BY <1>12 DEF Continue, Checks
  <2>2. QED
    BY <1>8, <2>1 DEF FrameTypes, SearchInv, frameVars, searchVars
<1>13. QED
  BY <1>1, <1>2, <1>5, <1>6, <1>9, <1>10, <1>11, <1>12 DEF ParseFrames, Takings
LEMMA AdvanceTypes ==
  ASSUME BufferTypes, LineTypes, NEW next \in Sent, Advance(next)
  PROVE  packet' \in Sent /\ at' \in Nat
<1>1. packet.editUnitDuration \in Nat /\ bufferSize \in Nat /\ at \in Nat /\ packet \in Sent
  BY DurationIs DEF LineTypes, BufferTypes
<1>2. CASE at + bufferSize < packet.editUnitDuration
  BY <1>1, <1>2 DEF Advance
<1>3. CASE ~(at + bufferSize < packet.editUnitDuration)
  BY <1>1, <1>3 DEF Advance
<1>4. QED
  BY <1>2, <1>3

LEMMA QueuesTypes ==
  ASSUME QueueTypes, NEW samples \in Buffers, NEW owes \in Owes, Queues(samples, owes),
         UNCHANGED bufferSize, UNCHANGED popped
  PROVE  QueueTypes'
<1>1. [samples |-> samples, owed |-> owes] \in Queued
  BY DEF Queued
<1>2. \A S : \A q \in Seq(S), s \in S : Append(q, s) \in Seq(S)
  OBVIOUS
<1>3. sampleQueue' \in Seq(Queued)
  BY <1>1, <1>2 DEF Queues, QueueTypes
<1>4. QED
  BY <1>3 DEF QueueTypes, Queued, Buffers

LEMMA HearTypes ==
  ASSUME BufferTypes, QueueTypes, LineTypes, audioDeviceIOCallback
  PROVE  QueueTypes' /\ LineTypes'
<1>1. /\ UNCHANGED bufferSize /\ UNCHANGED popped
      /\ packet \in Sent /\ at \in Nat /\ owed \in Owes /\ NothingOwed \in Owes
  BY DEF audioDeviceIOCallback, vvars, bufferVars, LineTypes, Owes
<1>2. NextPackets \subseteq Sent
  BY DEF NextPackets, OnLine
<1>3. CASE HearFrame
  <2>1. LineSamples(packet) \in Buffers
    BY <1>1, LineType
  <2>2. QueueTypes'
    BY <1>1, <1>3, <2>1, QueuesTypes DEF HearFrame
  <2>3. LineTypes'
    BY <1>1, <1>3 DEF HearFrame, LineTypes, BufferTypes, owedVars
  <2>4. QED
    BY <2>2, <2>3
<1>4. CASE HearSilence
  <2>1. Zeros(bufferSize) \in Buffers
    BY ZerosType DEF BufferTypes, Buffers
  <2>2. QueueTypes'
    BY <1>1, <1>4, <2>1, QueuesTypes DEF HearSilence
  <2>3. LineTypes'
    BY <1>1, <1>4 DEF HearSilence, LineTypes
  <2>4. QED
    BY <2>2, <2>3
<1>5. ASSUME NEW next \in NextPackets, HearEndOfFrame(next)
      PROVE  QueueTypes' /\ LineTypes'
  <2>1. next \in Sent
    BY <1>2
  <2>2. LineSamples(next) \in Buffers
    BY <2>1, LineType
  <2>3. owed' \in Owes
    BY <1>1, <1>5 DEF HearEndOfFrame, Owes
  <2>4. QueueTypes'
    BY <1>1, <1>5, <2>2, <2>3, QueuesTypes DEF HearEndOfFrame
  <2>5. Advance(next)
    <3>1. packet.editUnitDuration \in Nat /\ bufferSize \in Nat
      BY <1>1, DurationIs DEF BufferTypes
    <3>2. ~(at + bufferSize < packet.editUnitDuration)
      BY <1>1, <1>5, <3>1 DEF HearEndOfFrame
    <3>3. QED
      BY <1>5, <3>2 DEF HearEndOfFrame, Advance
  <2>6. packet' \in Sent /\ at' \in Nat
    BY <2>1, <2>5, AdvanceTypes
  <2>7. QED
    BY <2>3, <2>4, <2>6 DEF LineTypes, Owes
<1>6. ASSUME NEW next \in NextPackets, HearDropout(next)
      PROVE  QueueTypes' /\ LineTypes'
  <2>1. next \in Sent
    BY <1>2
  <2>2. PICK i \in DropoutsAt :
          i < bufferSize /\ Queues([LineSamples(next) EXCEPT ![i] = 0], NothingOwed)
    BY <1>6 DEF HearDropout
  <2>3. [LineSamples(next) EXCEPT ![i] = 0] \in Buffers
    <3>1. ASSUME NEW D, NEW b \in [D -> Int]
          PROVE  [b EXCEPT ![i] = 0] \in [D -> Int]
      <4>1. \A j \in D : [b EXCEPT ![i] = 0][j] = IF j = i THEN 0 ELSE b[j]
        OBVIOUS
      <4>2. \A j \in D : (IF j = i THEN 0 ELSE b[j]) \in Int
        OBVIOUS
      <4> DEFINE g == [b EXCEPT ![i] = 0]
      <4>3. g = [j \in D |-> g[j]]
        OBVIOUS
      <4>4. \A j \in D : g[j] \in Int
        BY <4>1, <4>2, Zenon
      <4> HIDE DEF g
      <4>5. g \in [D -> Int]
        BY <4>3, <4>4, Zenon
      <4>6. QED
        BY <4>5 DEF g
    <3>2. LineSamples(next) \in Buffers
      BY <2>1, LineType
    <3>3. QED
      BY <3>1, <3>2, Zenon DEF Buffers
  <2>4. QueueTypes'
    BY <1>1, <2>2, <2>3, QueuesTypes
  <2>5. packet' \in Sent /\ at' \in Nat
    BY <1>6, <2>1, AdvanceTypes DEF HearDropout
  <2>6. QED
    BY <1>1, <1>6, <2>4, <2>5 DEF HearDropout, LineTypes, Owes
<1>7. ASSUME NEW next \in NextPackets, LoseSamples(next)
      PROVE  QueueTypes' /\ LineTypes'
  <2>1. next \in Sent
    BY <1>2
  <2>2. QueueTypes'
    BY <1>1, <1>7 DEF LoseSamples, QueueTypes, Queued, Buffers
  <2>3. packet' \in Sent /\ at' \in Nat
    BY <1>7, <2>1, AdvanceTypes DEF LoseSamples
  <2>4. QED
    BY <1>1, <1>7, <2>2, <2>3 DEF LoseSamples, LineTypes, Owes
<1>8. QED
  BY <1>3, <1>4, <1>5, <1>6, <1>7 DEF audioDeviceIOCallback

LEMMA InitBounds == ClientInit => BoundsInv
<1> SUFFICES ASSUME ClientInit PROVE BoundsInv
  OBVIOUS
<1>1. bufferSize \in Nat \ {0} /\ InitialDuration \in Nat /\ InitialDuration > payloadDuration
  BY FrameValidatorAssumption DEF ClientInit, Init
<1>2. BufferTypes
  BY <1>1, ZerosType DEF ClientInit, Init, BufferTypes, Buffers
<1>3. FrameTypes /\ SearchInv
  BY <1>1, ZerosType, PayloadIs DEF ClientInit, Init, FrameTypes, SearchInv
<1>4. QueueTypes
  BY DEF ClientInit, QueueTypes
<1>5. LineTypes
  <2>1. at \in Nat
    BY SEClientAssumption, PayloadIs DEF ClientInit
  <2>2. QED
    BY <2>1 DEF ClientInit, LineTypes, Owes, OnLine
<1>6. QED
  BY <1>2, <1>3, <1>4, <1>5 DEF BoundsInv

LEMMA StepBounds ==
  ASSUME FramesHaveFill, BoundsInv, DurationsAreSent, [Next]_vars
  PROVE  BoundsInv'
<1> USE DEF BoundsInv
<1>1. CASE audioDeviceIOCallback
  <2>1. UNCHANGED vvars
    BY <1>1 DEF audioDeviceIOCallback
  <2>2. BufferTypes' /\ FrameTypes' /\ SearchInv'
    BY <2>1 DEF vvars, bufferVars, frameVars, searchVars, BufferTypes, Buffers, FrameTypes, SearchInv
  <2>3. QED
    BY <1>1, <2>2, HearTypes
<1>2. CASE PopBuffer
  <2>1. UNCHANGED vvars /\ UNCHANGED lineVars /\ UNCHANGED owedVars
        /\ sampleQueue # <<>> /\ popped' = <<Head(sampleQueue)>> /\ sampleQueue' = Tail(sampleQueue)
    BY <1>2 DEF PopBuffer
  <2>2. BufferTypes' /\ FrameTypes' /\ SearchInv'
    BY <2>1 DEF vvars, bufferVars, frameVars, searchVars, BufferTypes, Buffers, FrameTypes, SearchInv
  <2>3. \A S : \A q \in Seq(S) : q # <<>> => <<Head(q)>> \in Seq(S) /\ Tail(q) \in Seq(S)
    OBVIOUS
  <2>4. popped' \in Seq(Queued) /\ sampleQueue' \in Seq(Queued)
    BY <2>1, <2>3 DEF QueueTypes
  <2>5. Queued' = Queued
    BY <2>1 DEF Queued, Buffers, vvars, bufferVars
  <2>6. QueueTypes' /\ LineTypes'
    BY <2>1, <2>4, <2>5 DEF QueueTypes, LineTypes, lineVars, owedVars
  <2>7. QED
    BY <2>2, <2>6
<1>3. CASE RecycleBuffer
  <2>1. /\ popped # <<>> /\ popped' = <<>> /\ AddSamples(popped[1].samples)
        /\ UNCHANGED sampleQueue /\ UNCHANGED lineVars /\ UNCHANGED owedVars
    BY <1>3 DEF RecycleBuffer
  <2>2. popped[1].samples \in Buffers
    <3>1. \A S : \A q \in Seq(S) : q # <<>> => q[1] \in S
      OBVIOUS
    <3>2. popped[1] \in Queued
      BY <2>1, <3>1 DEF QueueTypes
    <3>3. QED
      BY <3>2 DEF Queued
  <2>7. BufferTypes'
    BY <2>1, <2>2 DEF AddSamples, BufferTypes, Buffers
  <2>8. UNCHANGED frameVars /\ UNCHANGED searchVars
    BY <2>1 DEF AddSamples
  <2>3. FrameTypes' /\ SearchInv'
    BY <2>8 DEF frameVars, searchVars, FrameTypes, SearchInv
  <2>4. Queued' = Queued
    BY <2>1 DEF AddSamples, Queued, Buffers
  <2>5. QueueTypes' /\ LineTypes'
    BY <2>1, <2>4 DEF QueueTypes, LineTypes, lineVars, owedVars
  <2>6. QED
    BY <2>3, <2>5, <2>7
<1>4. CASE Parse
  <2>1. BufferTypes' /\ FrameTypes' /\ SearchInv'
    BY <1>4, ParseBounds DEF Parse
  <2>2. UNCHANGED bufferSize
    BY <1>4, ParseKeepsBuffer DEF Parse
  <2>3. QueueTypes' /\ LineTypes'
    BY <1>4, <2>2 DEF Parse, QueueTypes, Queued, Buffers, LineTypes, lineVars, owedVars
  <2>4. QED
    BY <2>1, <2>3
<1>5. CASE UNCHANGED vars
  BY <1>5 DEF vars, vvars, bufferVars, frameVars, searchVars, lineVars, owedVars, BufferTypes, Buffers,
     FrameTypes, SearchInv, QueueTypes, Queued, LineTypes
<1>6. QED
  BY <1>1, <1>2, <1>3, <1>4, <1>5 DEF Next, Undefined

\* The duration of an accepted packet being one that was sent, and those being longer than a
\* payload, the offset stays in the frame and every copy in its buffer, that of the payload
\* (FrameValidator.cpp:485) included, whatever the glitches.
THEOREM OffsetsStayInBounds ==
  Spec /\ FramesHaveFill /\ []DurationsAreSent => [](OffsetsInBounds /\ ~Overrun)
<1> SUFFICES ASSUME FramesHaveFill
             PROVE  Spec /\ []DurationsAreSent => [](OffsetsInBounds /\ ~Overrun)
  OBVIOUS
<1>1. BoundsInv => OffsetsInBounds /\ ~Overrun
  BY DEF BoundsInv, BufferTypes, FrameTypes, SearchInv, OffsetsInBounds, Searching, Overrun
<1>2. BoundsInv /\ DurationsAreSent /\ [Next]_vars => BoundsInv'
  BY StepBounds
<1>3. QED
  BY <1>1, <1>2, InitBounds, PTL DEF Spec

-----------------------------------------------------------------------------
(* Silence.                                                                *)

\* How many zeros have been parsed in a row.
Parsed == quiet - (bufferSize - currentSample)

QuietBuffer ==
  /\ quiet \in Nat
  /\ quiet > 0 => \A i \in 0 .. bufferSize - 1 : currentAudioBuffer[i] = 0

\* They are what the frame ends with.
QuietFrame ==
  \A i \in 0 .. offsetIntoFrame - 1 : i >= offsetIntoFrame - Parsed => frame[i] = 0

FrameNotLong == currentFrameDuration <= LongestFrame

\* They have been counted since the last frame ended.
QuietCounted ==
  /\ numberOfSilentSamples \in Nat
  /\ lookingForSyncMarker =>
       numberOfSilentSamples > SilenceLimit \/ numberOfSilentSamples >= Parsed - LongestFrame

LimitNoticed == numberOfSilentSamples > SilenceLimit => notifiedSilence
NoticeShown == notifiedSilence => state = "NoData"

SilenceInv == QuietBuffer /\ QuietFrame /\ FrameNotLong /\ QuietCounted /\ LimitNoticed /\ NoticeShown

LEMMA LongestIs == LongestFrame \in Nat /\ \A d \in Durations : d \in Nat /\ d <= LongestFrame
<1>1. InitialDuration \in Durations /\ InitialDuration \in Nat
  BY FrameValidatorAssumption DEF Durations
<1> DEFINE most == InitialDuration + Word
<1>2. most \in Nat /\ \A d \in Durations : d \in Nat /\ d <= most
  <2>1. \A p \in Sent : p.editUnitDuration \in UInt16
    BY SEClientAssumption DEF SyncPackets
  <2>2. \A w \in Nat \ {0}, n \in Nat : (\A d \in 0 .. w - 1 : d \in Nat /\ d <= n + w) /\ n <= n + w
    OBVIOUS
  <2>3. \A d \in UInt16 : d \in Nat /\ d <= InitialDuration + Word
    BY <1>1, <2>2, WordIs DEF UInt16
  <2>4. InitialDuration <= InitialDuration + Word
    BY <1>1, <2>2, WordIs
  <2>5. InitialDuration + Word \in Nat
    BY <1>1, WordIs
  <2>6. ASSUME NEW d \in Durations
        PROVE  d \in Nat /\ d <= InitialDuration + Word
    <3>1. CASE d = InitialDuration
      BY <1>1, <2>4, <3>1
    <3>2. CASE d # InitialDuration
      <4>1. d \in UInt16
        BY <2>1, <3>2 DEF Durations
      <4>2. QED
        BY <2>3, <4>1
    <3>3. QED
      BY <3>1, <3>2
  <2>7. QED
    BY <2>5, <2>6
<1> HIDE DEF most
<1> DEFINE Short(d) == most - d
           T == {Short(d) : d \in Durations}
<1>3. T \in SUBSET Nat /\ T # {}
  <2>1. \A d \in Nat : d <= most => Short(d) \in Nat
    BY <1>2
  <2>2. \A d \in Durations : Short(d) \in Nat
    BY <1>2, <2>1
  <2>3. QED
    BY <1>1, <2>2
<1>4. PICK n \in T : \A k \in T : n <= k
  BY <1>3, LeastNatural, Zenon
<1>5. PICK d \in Durations : n = Short(d)
  BY <1>4
<1>6. ASSUME NEW e \in Durations
      PROVE  e <= d
  <2>1. Short(e) \in T /\ Short(d) <= Short(e)
    BY <1>4, <1>5
  <2>2. e \in Nat /\ d \in Nat /\ most \in Nat
    BY <1>2
  <2>3. QED
    BY <2>1, <2>2
<1>7. LongestFrame \in Durations /\ \A e \in Durations : e <= LongestFrame
  BY <1>6 DEF LongestFrame
<1>8. QED
  BY <1>2, <1>7

\* The frame begins with a marker, so that fewer zeros have been parsed than it holds.
LEMMA QuietIsShort ==
  ASSUME BufferTypes, FrameTypes, SearchInv, QuietBuffer, QuietFrame, offsetIntoFrame > 0
  PROVE  Parsed \in Int /\ Parsed < offsetIntoFrame
<1>1. Parsed \in Int /\ offsetIntoFrame \in Nat
  BY DEF BufferTypes, FrameTypes, QuietBuffer, Parsed
<1>2. ~lookingForSyncMarker
  BY DEF SearchInv
<1>3. frame[0] # 0
  BY <1>2, MarkerIs DEF SearchInv
<1>4. 0 \in 0 .. offsetIntoFrame - 1
  BY <1>1
<1>5. ~(0 >= offsetIntoFrame - Parsed)
  BY <1>3, <1>4 DEF QuietFrame
<1>6. QED
  BY <1>1, <1>5

LEMMA LoudBuffer ==
  ASSUME QuietBuffer, NEW i \in 0 .. bufferSize - 1, currentAudioBuffer[i] # 0
  PROVE  quiet = 0
BY DEF QuietBuffer

\* Behind a buffer that is not all zeros.
LEMMA LoudFrame ==
  ASSUME BufferTypes', FrameTypes', quiet' = 0
  PROVE  QuietFrame' /\ Parsed' \in Int /\ Parsed' <= 0
<1>1. Parsed' \in Int /\ Parsed' <= 0
  <2>1. bufferSize' \in Nat /\ currentSample' \in Nat /\ currentSample' <= bufferSize'
    BY DEF BufferTypes
  <2>2. \A b, c \in Nat : c <= b => 0 - (b - c) \in Int /\ 0 - (b - c) <= 0
    OBVIOUS
  <2>3. QED
    BY <2>1, <2>2, Zenon DEF Parsed
<1>2. offsetIntoFrame' \in Nat
  BY DEF FrameTypes
<1>3. \A z \in Int, o \in Nat, i \in Int : z <= 0 /\ i < o => ~(i >= o - z)
  OBVIOUS
<1>4. \A i \in 0 .. offsetIntoFrame' - 1 : ~(i >= offsetIntoFrame' - Parsed')
  <2>1. \A o \in Nat : 0 .. o - 1 \subseteq Int /\ \A i \in 0 .. o - 1 : i < o
    OBVIOUS
  <2>2. QED
    BY <1>1, <1>2, <1>3, <2>1, Zenon
<1>5. QED
  BY <1>1, <1>4, Zenon DEF QuietFrame
Resets == FindMarkerWithoutTail \/ MissTail \/ RejectPayload \/ HandleFrame \/ RejectFrame

LEMMA ResetsReset ==
  ASSUME Resets
  PROVE  ResetFrame
BY DEF Resets, FindMarkerWithoutTail, MissTail, RejectPayload, HandleFrame, RejectFrame

LEMMA ParseQuietFrame ==
  ASSUME BufferTypes, FrameTypes, SearchInv, QuietBuffer, QuietFrame, ParseFrames,
         UNCHANGED quiet, BufferTypes', FrameTypes'
  PROVE  QuietFrame'
<1>1. /\ bufferSize \in Nat /\ currentSample \in Nat /\ currentSample <= bufferSize
      /\ quiet \in Nat /\ offsetIntoFrame \in Nat /\ currentFrameDuration \in Nat
      /\ offsetIntoFrame <= currentFrameDuration
  BY DEF BufferTypes, FrameTypes, QuietBuffer
<1>2. UNCHANGED bufferSize
  BY ParseKeepsBuffer
<1>3. CASE quiet = 0
  BY <1>3, LoudFrame
<1>4. CASE Resets \/ SkipSilence \/ SkipSample
  <2>1. offsetIntoFrame' = 0
    BY <1>4, ResetsReset DEF ResetFrame, SkipSilence, SkipSample, SearchInv, frameVars
  <2>2. 0 .. 0 - 1 = {}
    OBVIOUS
  <2>3. QED
    BY <2>1, <2>2 DEF QuietFrame
<1>5. CASE Takings /\ quiet # 0
  <2>1. PICK n : Taken(n)
    BY <1>5, TakingsTake
  <2>2. /\ n \in Nat /\ currentSample + n <= bufferSize
        /\ offsetIntoFrame + n <= currentFrameDuration
        /\ offsetIntoFrame' = offsetIntoFrame + n /\ currentSample' = currentSample + n
    BY <2>1 DEF Taken
  <2>3. offsetIntoFrame' - Parsed' = offsetIntoFrame - Parsed
    BY <1>1, <1>2, <2>2 DEF Parsed
  <2>4. ASSUME NEW i \in 0 .. offsetIntoFrame' - 1, i >= offsetIntoFrame' - Parsed'
        PROVE  frame'[i] = 0
    <3>1. /\ i \in 0 .. currentFrameDuration - 1
          /\ i < offsetIntoFrame + n
      BY <1>1, <2>2
    <3>2. CASE offsetIntoFrame <= i
      <4>1. currentSample + i - offsetIntoFrame \in 0 .. bufferSize - 1
        BY <1>1, <2>2, <3>1, <3>2
      <4>2. frame'[i] = currentAudioBuffer[currentSample + i - offsetIntoFrame]
        BY <2>1, <3>1, <3>2 DEF Taken
      <4>3. quiet > 0
        BY <1>1, <1>5
      <4>4. QED
        BY <4>1, <4>2, <4>3 DEF QuietBuffer
    <3>3. CASE ~(offsetIntoFrame <= i)
      <4>1. frame'[i] = frame[i]
        BY <2>1, <3>1, <3>3 DEF Taken
      <4>2. i \in 0 .. offsetIntoFrame - 1 /\ i >= offsetIntoFrame - Parsed
        BY <1>1, <2>3, <2>4, <3>1, <3>3
      <4>3. QED
        BY <4>1, <4>2 DEF QuietFrame
    <3>4. QED
      BY <3>2, <3>3
  <2>5. QED
    BY <2>4 DEF QuietFrame
<1>6. ASSUME UNCHANGED currentSample
      PROVE  Parsed' = Parsed
  BY <1>2, <1>6 DEF Parsed
<1>7. CASE HandlePayload
  <2>1. /\ UNCHANGED currentSample /\ UNCHANGED offsetIntoFrame
        /\ offsetIntoFrame = payloadDuration
        /\ \A i \in 0 .. currentFrameDuration' - 1 : i < payloadDuration => frame'[i] = frame[i]
    BY <1>7 DEF HandlePayload, Checks
  <2>2. \A i \in 0 .. offsetIntoFrame - 1 : i < payloadDuration /\ i \in 0 .. currentFrameDuration' - 1
    <3>1. currentFrameDuration' \in Nat /\ currentFrameDuration' > payloadDuration
      BY DEF FrameTypes
    <3>2. \A o, d \in Nat : d > o => \A i \in 0 .. o - 1 : i < o /\ i \in 0 .. d - 1
      OBVIOUS
    <3>3. QED
      BY <1>1, <2>1, <3>1, <3>2
  <2>3. \A i \in 0 .. offsetIntoFrame - 1 : frame'[i] = frame[i]
    BY <2>1, <2>2
  <2>4. offsetIntoFrame' = offsetIntoFrame /\ Parsed' = Parsed
    BY <1>6, <2>1
  <2>5. QED
    BY <2>3, <2>4 DEF QuietFrame
<1>8. CASE ShuffleFrame
  <2>1. PICK first \in LaterMarkers :
          /\ frame' = [i \in DOMAIN frame |->
                         IF i + first < currentFrameDuration THEN frame[i + first] ELSE 0]
          /\ offsetIntoFrame' = currentFrameDuration - first
    BY <1>8 DEF ShuffleFrame
  <2>2. offsetIntoFrame = currentFrameDuration /\ UNCHANGED currentSample
    BY <1>8 DEF ShuffleFrame, FrameFull, Checks
  <2>3. first \in 2 .. currentFrameDuration - 1
    BY <2>1 DEF LaterMarkers
  <2>4. Parsed' = Parsed /\ Parsed \in Int
    BY <1>1, <1>6, <2>2 DEF Parsed
  <2>5. ASSUME NEW i \in 0 .. offsetIntoFrame' - 1, i >= offsetIntoFrame' - Parsed'
        PROVE  frame'[i] = 0
    <3>1. /\ i \in 0 .. currentFrameDuration - 1 /\ i + first < currentFrameDuration
          /\ i + first \in 0 .. offsetIntoFrame - 1
          /\ i + first >= offsetIntoFrame - Parsed
      BY <1>1, <2>1, <2>2, <2>3, <2>4, <2>5
    <3>2. DOMAIN frame = 0 .. currentFrameDuration - 1
      BY DEF FrameTypes
    <3>3. frame'[i] = frame[i + first]
      BY <2>1, <3>1, <3>2
    <3>4. QED
      BY <3>1, <3>3 DEF QuietFrame
  <2>6. QED
    BY <2>5 DEF QuietFrame
<1>9. CASE Continue
  <2>1. /\ UNCHANGED currentSample /\ UNCHANGED offsetIntoFrame /\ UNCHANGED frame
    BY <1>9 DEF Continue, Checks, frameVars
  <2>2. Parsed' = Parsed
    BY <1>6, <2>1
  <2>3. QED
    BY <2>1, <2>2 DEF QuietFrame
<1>10. QED
  BY <1>3, <1>4, <1>5, <1>7, <1>8, <1>9 DEF ParseFrames, Takings, Resets

LEMMA ParseFrameNotLong ==
  ASSUME FrameNotLong, DurationsAreSent, ParseFrames
  PROVE  FrameNotLong'
<1>1. CASE HandlePayload
  <2>1. /\ checking /\ offsetIntoFrame = payloadDuration /\ ValidatePayload
        /\ currentFrameDuration' = ReadSyncPacket(frame).editUnitDuration
        /\ currentFrameDuration' # 0
    BY <1>1 DEF HandlePayload, Checks
  <2>2. currentFrameDuration' \in Durations
    BY <2>1 DEF DurationsAreSent, Durations
  <2>3. QED
    BY <2>2, LongestIs DEF FrameNotLong
<1>2. CASE ~HandlePayload
  <2>1. UNCHANGED currentFrameDuration
    BY <1>2 DEF ParseFrames, FindMarkerAndTail, FindMarkerWithoutTail, FindMarkerAtTheEnd, FindTail,
       MissTail, SkipSilence, SkipSample, TakeSamples, RejectPayload, HandleFrame, ShuffleFrame,
       RejectFrame, Continue, frameVars, ResetFrame
  <2>2. QED
    BY <2>1 DEF FrameNotLong
<1>3. QED
  BY <1>1, <1>2

LEMMA ParseQuietCounted ==
  ASSUME BufferTypes, FrameTypes, SearchInv, QuietBuffer, QuietFrame, FrameNotLong, QuietCounted,
         LimitNoticed, ParseFrames, UNCHANGED quiet, BufferTypes', FrameTypes'
  PROVE  QuietCounted' /\ LimitNoticed'
<1>1. /\ bufferSize \in Nat /\ currentSample \in Nat /\ currentSample <= bufferSize
      /\ quiet \in Nat /\ offsetIntoFrame \in Nat /\ currentFrameDuration \in Nat
      /\ offsetIntoFrame <= currentFrameDuration /\ LongestFrame \in Nat
      /\ currentFrameDuration <= LongestFrame /\ numberOfSilentSamples \in Nat
      /\ SilenceLimit \in Nat /\ UNCHANGED bufferSize
  BY LongestIs, ParseKeepsBuffer, FrameValidatorAssumption
     DEF BufferTypes, FrameTypes, QuietBuffer, FrameNotLong, QuietCounted
<1>2. Parsed \in Int
  BY <1>1 DEF Parsed
<1>3. CASE ClearSilenceFlags /\ (quiet = 0 \/ ~lookingForSyncMarker')
  <2>1. numberOfSilentSamples' = 0
    BY <1>3 DEF ClearSilenceFlags
  <2>2. lookingForSyncMarker' => 0 >= Parsed' - LongestFrame
    <3>1. CASE quiet = 0
      <4>1. Parsed' \in Int /\ Parsed' <= 0
        BY <3>1, LoudFrame
      <4>2. \A z \in Int, l \in Nat : z <= 0 => 0 >= z - l
        OBVIOUS
      <4>3. QED
        BY <1>1, <4>1, <4>2
    <3>2. QED
      BY <1>3, <3>1
  <2>3. ~(0 > SilenceLimit)
    BY <1>1
  <2>4. QED
    BY <2>1, <2>2, <2>3 DEF QuietCounted, LimitNoticed
<1>4. CASE FindMarkerAndTail \/ FindMarkerAtTheEnd \/ FindTail
  <2>1. ClearSilenceFlags /\ ~lookingForSyncMarker'
    BY <1>4 DEF FindMarkerAndTail, FindMarkerAtTheEnd, FindTail, Takes
  <2>2. QED
    BY <1>3, <2>1
<1>5. CASE FindMarkerWithoutTail
  <2>1. /\ currentAudioBuffer[currentSample] = SyncMarker /\ currentSample \in 0 .. bufferSize - 1
        /\ ResetFrame
    BY <1>1, <1>5 DEF FindMarkerWithoutTail, FindsMarker, Takes, IsMarker
  <2>2. quiet = 0
    BY <2>1, LoudBuffer, MarkerIs
  <2>3. QED
    BY <1>3, <2>1, <2>2 DEF ResetFrame
<1>6. CASE SkipSample
  <2>1. /\ currentSample < bufferSize /\ ~SilenceAhead /\ ClearSilenceFlags
    BY <1>6 DEF SkipSample, Takes
  <2>2. PICK i \in currentSample .. currentSample + SamplesToTest - 1 : currentAudioBuffer[i] # 0
    BY <2>1 DEF SilenceAhead
  <2>3. i \in 0 .. bufferSize - 1
    BY <1>1, <2>1, <2>2, PayloadIs DEF SamplesToTest
  <2>4. quiet = 0
    BY <2>2, <2>3, LoudBuffer
  <2>5. QED
    BY <1>3, <2>1, <2>4
<1>7. CASE MissTail \/ RejectPayload \/ HandleFrame \/ RejectFrame
  <2>1. ResetFrame /\ UNCHANGED currentSample
    BY <1>7 DEF MissTail, RejectPayload, HandleFrame, RejectFrame, Checks
  <2>2. offsetIntoFrame > 0
    <3>1. CASE MissTail
      BY <3>1 DEF MissTail, SearchInv
    <3>2. CASE ~MissTail
      BY <1>1, <1>7, <3>2, PayloadIs DEF RejectPayload, HandleFrame, RejectFrame, FrameFull, FrameTypes
    <3>3. QED
      BY <3>1, <3>2
  <2>3. Parsed < offsetIntoFrame
    BY <2>2, QuietIsShort
  <2>4. Parsed' = Parsed
    BY <1>1, <2>1 DEF Parsed
  <2>5. numberOfSilentSamples' = 0
    BY <2>1 DEF ResetFrame, ClearSilenceFlags
  <2>6. 0 >= Parsed - LongestFrame /\ ~(0 > SilenceLimit)
    BY <1>1, <1>2, <2>3
  <2>7. QED
    BY <2>4, <2>5, <2>6 DEF QuietCounted, LimitNoticed
<1>8. CASE SkipSilence
  <2> DEFINE n == numberOfSilentSamples + SamplesToTest
  <2>1. /\ currentSample < bufferSize /\ currentSample' = currentSample + SamplesToTest
        /\ numberOfSilentSamples' = IF n > SilenceLimit THEN SilenceLimit + 1 ELSE n
        /\ lookingForSyncMarker
    BY <1>8 DEF SkipSilence, Takes
  <2>2. SamplesToTest \in Nat /\ n \in Nat
    BY <1>1, <2>1, PayloadIs DEF SamplesToTest
  <2>3. Parsed' = Parsed + SamplesToTest
    BY <1>1, <2>1, <2>2 DEF Parsed
  <2>4. numberOfSilentSamples' \in Nat
    BY <1>1, <2>1, <2>2
  <2>5. numberOfSilentSamples' > SilenceLimit \/ numberOfSilentSamples' >= Parsed' - LongestFrame
    <3>1. numberOfSilentSamples > SilenceLimit \/ numberOfSilentSamples >= Parsed - LongestFrame
      BY <2>1 DEF QuietCounted
    <3>2. CASE n > SilenceLimit
      BY <1>1, <2>1, <3>2
    <3>3. CASE ~(n > SilenceLimit)
      BY <1>1, <1>2, <2>1, <2>2, <2>3, <3>1, <3>3
    <3>4. QED
      BY <3>2, <3>3
  <2>6. LimitNoticed'
    <3>1. NotifySilence
      BY <1>8 DEF SkipSilence
    <3>2. CASE ~(numberOfSilentSamples' > SilenceLimit)
      BY <3>2 DEF LimitNoticed
    <3>3. CASE numberOfSilentSamples' > SilenceLimit
      BY <3>1, <3>3 DEF LimitNoticed, NotifySilence, Notices
    <3>4. QED
      BY <3>2, <3>3
  <2>7. QED
    BY <2>4, <2>5, <2>6 DEF QuietCounted
<1>9. CASE TakeSamples \/ HandlePayload \/ ShuffleFrame \/ Continue
  <2>1. UNCHANGED silenceVars
    BY <1>9 DEF TakeSamples, HandlePayload, ShuffleFrame, Continue
  <2>2. lookingForSyncMarker' = lookingForSyncMarker
    BY <1>9 DEF TakeSamples, HandlePayload, ShuffleFrame, Continue, searchVars
  <2>3. lookingForSyncMarker => currentSample' = currentSample
    BY <1>9 DEF TakeSamples, Searching, HandlePayload, ShuffleFrame, Continue, Checks
  <2>4. lookingForSyncMarker => Parsed' = Parsed
    BY <1>1, <2>3 DEF Parsed
  <2>5. QED
    BY <2>1, <2>2, <2>4 DEF silenceVars, QuietCounted, LimitNoticed
<1>10. QED
  BY <1>4, <1>5, <1>6, <1>7, <1>8, <1>9 DEF ParseFrames

LEMMA ParseNoticeShown ==
  ASSUME NoticeShown, Parse
  PROVE  NoticeShown'
<1>1. ParseFrames /\ React
  BY DEF Parse
<1>2. CASE ClearSilenceFlags
  BY <1>2 DEF ClearSilenceFlags, NoticeShown
<1>3. CASE SkipSilence
  <2>1. NotifySilence
    BY <1>3 DEF SkipSilence
  <2>2. CASE Notices /\ numberOfSilentSamples' > SilenceLimit
    <3>1. event' = [kind |-> "silence", exceeds |-> TRUE]
      BY <2>1, <2>2 DEF NotifySilence
    <3>2. event'.kind = "silence" /\ event'.exceeds
      BY <3>1
    <3>3. state' = "NoData"
      BY <1>1, <3>2 DEF React
    <3>4. QED
      BY <3>3 DEF NoticeShown
  <2>3. CASE ~(Notices /\ numberOfSilentSamples' > SilenceLimit)
    <3>1. notifiedSilence' => notifiedSilence
      BY <2>1, <2>3, Zenon DEF NotifySilence
    <3>2. event'.kind # "frame"
      BY <2>1, <2>3 DEF NotifySilence, NoEvent
    <3>3. state' = state \/ state' = "NoData"
      BY <1>1, <3>2 DEF React, clientVars
    <3>4. QED
      BY <3>1, <3>3, Zenon DEF NoticeShown
  <2>4. QED
    BY <2>2, <2>3
<1>4. CASE TakeSamples \/ HandlePayload \/ ShuffleFrame \/ Continue
  <2>1. UNCHANGED silenceVars /\ event' = NoEvent
    BY <1>4 DEF TakeSamples, HandlePayload, ShuffleFrame, Continue
  <2>2. state' = state
    BY <1>1, <2>1 DEF React, clientVars, NoEvent
  <2>3. QED
    BY <2>1, <2>2 DEF silenceVars, NoticeShown
<1>5. QED
  BY <1>1, <1>2, <1>3, <1>4 DEF ParseFrames, FindMarkerAndTail, FindMarkerWithoutTail,
     FindMarkerAtTheEnd, FindTail, MissTail, SkipSample, RejectPayload, HandleFrame, RejectFrame, ResetFrame

LEMMA InitSilence == ClientInit => SilenceInv
<1> SUFFICES ASSUME ClientInit PROVE SilenceInv
  OBVIOUS
<1>1. BoundsInv
  BY InitBounds
<1>2. QuietBuffer
  BY DEF ClientInit, QuietBuffer
<1>3. QuietFrame
  <2>1. offsetIntoFrame = 0 /\ 0 .. 0 - 1 = {}
    BY DEF ClientInit, Init
  <2>2. QED
    BY <2>1 DEF QuietFrame
<1>4. FrameNotLong
  BY LongestIs DEF ClientInit, Init, FrameNotLong, Durations
<1>5. Parsed = 0
  <2>1. bufferSize \in Nat
    BY <1>1 DEF BoundsInv, BufferTypes
  <2>2. QED
    BY <2>1 DEF Parsed, ClientInit, Init
<1>6. QuietCounted /\ LimitNoticed /\ NoticeShown
  BY <1>5, LongestIs, FrameValidatorAssumption DEF ClientInit, Init, QuietCounted, LimitNoticed, NoticeShown
<1>7. QED
  BY <1>2, <1>3, <1>4, <1>6 DEF SilenceInv

LEMMA StepSilence ==
  ASSUME FramesHaveFill, BoundsInv, SilenceInv, DurationsAreSent, [Next]_vars
  PROVE  SilenceInv'
<1>1. BoundsInv'
  BY StepBounds
<1>2. CASE UNCHANGED <<vvars, clientVars, quiet>>
  <2>1. UNCHANGED <<bufferSize, currentAudioBuffer, currentSample, quiet, frame, offsetIntoFrame,
                    currentFrameDuration>>
    BY <1>2 DEF vvars, bufferVars, frameVars
  <2>2. UNCHANGED <<numberOfSilentSamples, lookingForSyncMarker, notifiedSilence, state>>
    BY <1>2 DEF vvars, searchVars, silenceVars, clientVars
  <2>3. QuietBuffer' /\ QuietFrame' /\ FrameNotLong'
    BY <2>1 DEF SilenceInv, QuietBuffer, QuietFrame, FrameNotLong, Parsed
  <2>4. QuietCounted' /\ LimitNoticed' /\ NoticeShown'
    BY <2>1, <2>2 DEF SilenceInv, QuietCounted, LimitNoticed, NoticeShown, Parsed
  <2>5. QED
    BY <2>3, <2>4 DEF SilenceInv
<1>3. CASE Parse
  <2>1. ParseFrames /\ UNCHANGED quiet
    BY <1>3 DEF Parse
  <2>2. QuietBuffer'
    BY <2>1, ParseKeepsBuffer DEF SilenceInv, QuietBuffer
  <2>3. QuietFrame'
    BY <1>1, <2>1, ParseQuietFrame DEF BoundsInv, SilenceInv
  <2>4. FrameNotLong'
    BY <2>1, ParseFrameNotLong DEF SilenceInv
  <2>5. QuietCounted' /\ LimitNoticed'
    BY <1>1, <2>1, ParseQuietCounted DEF BoundsInv, SilenceInv
  <2>6. NoticeShown'
    BY <1>3, ParseNoticeShown DEF SilenceInv
  <2>7. QED
    BY <2>2, <2>3, <2>4, <2>5, <2>6 DEF SilenceInv
<1>4. CASE RecycleBuffer
  <2> DEFINE samples == popped[1].samples
  <2>1. /\ currentSample >= bufferSize /\ currentAudioBuffer' = samples /\ currentSample' = 0
        /\ UNCHANGED bufferSize /\ UNCHANGED <<frameVars, searchVars, silenceVars>>
        /\ UNCHANGED state
        /\ quiet' = IF samples # Zeros(bufferSize) THEN 0
                    ELSE quiet + (IF quiet > QuietBound THEN 0 ELSE bufferSize)
    BY <1>4 DEF RecycleBuffer, AddSamples, Idle, clientVars
  <2> HIDE DEF samples
  <2>2. /\ bufferSize \in Nat /\ currentSample = bufferSize /\ quiet \in Nat /\ Parsed \in Int
        /\ Parsed = quiet /\ offsetIntoFrame \in Nat /\ LongestFrame \in Nat
    BY <2>1, LongestIs DEF BoundsInv, SilenceInv, BufferTypes, FrameTypes, QuietBuffer, Parsed
  <2>3. /\ quiet' \in Nat /\ quiet' <= quiet + bufferSize
        /\ quiet' > 0 => samples = Zeros(bufferSize) \/ quiet' = 0
    <3>1. CASE samples # Zeros(bufferSize)
      BY <2>1, <2>2, <3>1
    <3>2. CASE samples = Zeros(bufferSize) /\ quiet > QuietBound
      BY <2>1, <2>2, <3>2
    <3>3. CASE samples = Zeros(bufferSize) /\ ~(quiet > QuietBound)
      BY <2>1, <2>2, <3>3
    <3>4. QED
      BY <3>1, <3>2, <3>3
  <2>4. QuietBuffer'
    BY <2>1, <2>2, <2>3, ZerosType DEF QuietBuffer
  <2>5. Parsed' \in Int /\ Parsed' <= Parsed
    BY <2>1, <2>2, <2>3 DEF Parsed
  <2>6. QuietFrame'
    <3>4. \A y, z \in Int, o \in Nat :
            y <= z => \A i \in 0 .. o - 1 : i >= o - y => i >= o - z
      OBVIOUS
    <3>1. \A i \in 0 .. offsetIntoFrame - 1 : i >= offsetIntoFrame - Parsed' => i >= offsetIntoFrame - Parsed
      BY <2>2, <2>5, <3>4
    <3>2. frame' = frame /\ offsetIntoFrame' = offsetIntoFrame
      BY <2>1 DEF frameVars
    <3>3. QED
      BY <3>1, <3>2 DEF SilenceInv, QuietFrame
  <2>7. QuietCounted'
    <3>1. numberOfSilentSamples' = numberOfSilentSamples /\ lookingForSyncMarker' = lookingForSyncMarker
      BY <2>1 DEF silenceVars, searchVars
    <3>4. \A y, z \in Int, l, m \in Nat : y <= z /\ m >= z - l => m >= y - l
      OBVIOUS
    <3>2. \A m \in Nat : m >= Parsed - LongestFrame => m >= Parsed' - LongestFrame
      BY <2>2, <2>5, <3>4
    <3>3. QED
      BY <3>1, <3>2 DEF SilenceInv, QuietCounted
  <2>8. FrameNotLong' /\ LimitNoticed' /\ NoticeShown'
    BY <2>1 DEF SilenceInv, FrameNotLong, LimitNoticed, NoticeShown, silenceVars, frameVars
  <2>9. QED
    BY <2>4, <2>6, <2>7, <2>8 DEF SilenceInv
<1>5. QED
  BY <1>2, <1>3, <1>4 DEF Next, Undefined, audioDeviceIOCallback, PopBuffer, vars

\* With packets whose durations were sent and are longer than a payload, three seconds of
\* silence behind the longest frame are noticed, however the buffers cut them and whatever
\* the line carried before.
THEOREM SilenceGetsNoticed ==
  Spec /\ FramesHaveFill /\ []DurationsAreSent => []SilenceIsNoticed
<1> SUFFICES ASSUME FramesHaveFill PROVE Spec /\ []DurationsAreSent => []SilenceIsNoticed
  OBVIOUS
<1>1. ASSUME BoundsInv, SilenceInv
      PROVE  SilenceIsNoticed
  <2> SUFFICES ASSUME Idle, quiet > QuietBound PROVE state = "NoData"
    BY DEF SilenceIsNoticed
  <2>1. /\ bufferSize \in Nat /\ currentSample = bufferSize /\ quiet \in Nat
        /\ SilenceLimit \in Nat /\ LongestFrame \in Nat /\ Parsed = quiet
        /\ numberOfSilentSamples \in Nat /\ offsetIntoFrame \in Nat /\ currentFrameDuration \in Nat
        /\ offsetIntoFrame <= currentFrameDuration /\ currentFrameDuration <= LongestFrame
    BY <1>1, LongestIs, FrameValidatorAssumption
       DEF BoundsInv, BufferTypes, FrameTypes, Idle, SilenceInv, QuietBuffer, QuietCounted, FrameNotLong, Parsed
  <2>2. Parsed > LongestFrame + SilenceLimit
    BY <2>1 DEF QuietBound
  <2>3. lookingForSyncMarker
    <3>1. CASE offsetIntoFrame > 0
      BY <1>1, <2>1, <2>2, <3>1, QuietIsShort DEF BoundsInv, SilenceInv
    <3>2. QED
      BY <1>1, <3>1 DEF BoundsInv, SearchInv
  <2>4. numberOfSilentSamples > SilenceLimit
    BY <1>1, <2>1, <2>2, <2>3 DEF SilenceInv, QuietCounted
  <2>5. QED
    BY <1>1, <2>4 DEF SilenceInv, LimitNoticed, NoticeShown
<1>2. QED
  BY <1>1, InitBounds, StepBounds, InitSilence, StepSilence, PTL DEF Spec

-----------------------------------------------------------------------------
(* The durations that are accepted.                                        *)
(*                                                                         *)
(* Without splices, a gap ends where a frame, or its fill, begins; and of  *)
(* two samples in a row at most one drops out.  Every sample that is on    *)
(* its way, and every one in the frame, has then a place, a packet and an  *)
(* index, that it is the sample of if it did not drop out; and the place   *)
(* in a payload behind another is the next of that payload.                *)

Place == Sent \X Nat
Value(l) == SampleAt(l[1], l[2])

\* Behind a place the line goes on with its packet, a frame or fill.
Behind(l, m) == m[2] = 0 \/ m[2] >= payloadDuration \/ m = <<l[1], l[2] + 1>>

\* The samples from one index to before another are those at the places L.
Run(samples, L, from, to) ==
  \A i \in from .. to - 1 :
    /\ L[i] \in Place /\ samples[i] \in {0, Value(L[i])}
    /\ i # 0 => /\ Behind(L[i - 1], L[i])
                /\ samples[i] = Value(L[i]) \/ samples[i - 1] = Value(L[i - 1])

PlacesOfBuffer == [0 .. bufferSize - 1 -> Place]

Heard(samples, L, from) ==
  Run(samples, L, from, bufferSize) /\ (from = 0 => samples[0] = Value(L[0]))

\* What the client has still to parse behind its current buffer.
Pending == popped \o sampleQueue

\* LS has the places of the current buffer and of those behind it.
HeardAll(LS) ==
  /\ LS \in Seq(PlacesOfBuffer) /\ Len(LS) = Len(Pending) + 1
  /\ \A k \in 1 .. Len(Pending) :
       Heard(Pending[k].samples, LS[k + 1], 0) /\ Behind(LS[k][bufferSize - 1], LS[k + 1][0])
  /\ Behind(LS[Len(LS)][bufferSize - 1], <<packet, at>>)

\* The frame ends where the current buffer goes on.
Joined(LF, LB) ==
  offsetIntoFrame > 0 =>
    IF currentSample = 0 THEN Behind(LF[offsetIntoFrame - 1], LB[0])
    ELSE /\ LF[offsetIntoFrame - 1] = LB[currentSample - 1]
         /\ frame[offsetIntoFrame - 1] = currentAudioBuffer[currentSample - 1]

InFrame(LF, LB) == Run(frame, LF, 0, offsetIntoFrame) /\ Joined(LF, LB)

LineInv ==
  /\ bufferSize \in BufferSizes /\ at < packet.editUnitDuration
  /\ popped = <<>> \/ Len(popped) = 1
  /\ silent => at = 0 \/ at >= payloadDuration

HasPlaces ==
  \E LF, LS : /\ HeardAll(LS) /\ Heard(currentAudioBuffer, LS[1], currentSample)
              /\ InFrame(LF, LS[1])

PlacesInv == LineInv /\ HasPlaces

LEMMA ValueIs ==
  ASSUME NEW p \in Sent, NEW i \in Nat
  PROVE  /\ <<p, i>> \in Place /\ Value(<<p, i>>) = SampleAt(p, i)
         /\ i >= payloadDuration => Value(<<p, i>>) = 0
         /\ i = 0 => Value(<<p, i>>) = SyncMarker
         /\ i = 1 => Value(<<p, i>>) = -SyncMarker
         /\ i > 0 => Value(<<p, i>>) # SyncMarker
         /\ i = 14 => Value(<<p, i>>) = p.editUnitDuration
<1>1. <<p, i>> \in Place /\ Value(<<p, i>>) = SampleAt(p, i)
  BY DEF Place, Value
<1>2. /\ payloadDuration \in Nat /\ payloadDuration > 40 /\ SyncMarker \in Nat \ {0}
      /\ Word \in Nat /\ SyncMarker >= Word
  BY PayloadIs, MarkerIs, WordIs
<1>3. i >= payloadDuration => SampleAt(p, i) = 0
  BY <1>2 DEF SampleAt
<1>4. i < payloadDuration => SampleAt(p, i) = Written[p][i + 1]
  BY DEF SampleAt
<1>5. i > 1 /\ i < payloadDuration => Written[p][i + 1] # SyncMarker
  <2>1. i > 1 /\ i < payloadDuration => i + 1 \in 3 .. payloadDuration
    BY <1>2
  <2>2. \A v \in Small : v # SyncMarker
    BY <1>2 DEF Small
  <2>3. QED
    BY <2>1, <2>2, WrittenPacket
<1>6. /\ i = 0 => i + 1 = 1 /\ i < payloadDuration
      /\ i = 1 => i + 1 = 2 /\ i < payloadDuration
      /\ i = 14 => i + 1 = 15 /\ i < payloadDuration
      /\ ~(i >= payloadDuration) => i < payloadDuration
  BY <1>2
<1>7. /\ i = 0 => SampleAt(p, i) = SyncMarker
      /\ i = 1 => SampleAt(p, i) = -SyncMarker
      /\ i = 14 => SampleAt(p, i) = p.editUnitDuration
  BY <1>4, <1>6, WrittenPacket
<1>8. i > 0 => SampleAt(p, i) # SyncMarker
  <2>1. -SyncMarker # SyncMarker /\ 0 # SyncMarker
    BY <1>2
  <2>2. i > 0 => i = 1 \/ i > 1
    OBVIOUS
  <2>3. QED
    BY <1>3, <1>4, <1>5, <1>6, <1>7, <2>1, <2>2
<1>9. QED
  BY <1>1, <1>3, <1>7, <1>8

\* A payload that begins with a marker and holds no other, and no other tail, has the
\* duration of the packet of its marker, or none.
LEMMA RunHasDuration ==
  ASSUME NEW f, NEW L, Run(f, L, 0, payloadDuration),
         f[0] = SyncMarker, f[1] = -SyncMarker,
         \A i \in 2 .. payloadDuration - 1 : f[i] # SyncMarker /\ f[i] # -SyncMarker
  PROVE  f[14] \in {0} \cup {p.editUnitDuration : p \in Sent}
<1>1. payloadDuration \in Nat /\ payloadDuration > 40 /\ SyncMarker \in Nat \ {0}
  BY PayloadIs, MarkerIs
<1>2. \A i \in 0 .. payloadDuration - 1 : L[i] \in Place /\ f[i] \in {0, Value(L[i])}
  BY DEF Run
<1>3. 14 \in 0 .. payloadDuration - 1
  BY <1>1
<1>4. PICK q \in Sent, k \in Nat : L[14] = <<q, k>>
  BY <1>2, <1>3 DEF Place
<1> SUFFICES ASSUME f[14] # 0 PROVE f[14] \in {p.editUnitDuration : p \in Sent}
  OBVIOUS
<1>5. f[14] = Value(<<q, k>>) /\ k < payloadDuration
  <2>1. f[14] = Value(<<q, k>>)
    BY <1>2, <1>3, <1>4
  <2>2. ~(k >= payloadDuration)
    BY <2>1, ValueIs
  <2>3. QED
    BY <1>1, <2>1, <2>2
\* Back from there, the places are those before in the payload of q.
<1> DEFINE At(j) == L[14 - j] = <<q, k - j>>
           Back == {j \in 0 .. 14 : j <= k => At(j)}
<1>6. 0 \in Back
  BY <1>4
<1>7. ASSUME NEW j \in Nat, j < 14, j \in Back
      PROVE  j + 1 \in Back
  <2> SUFFICES ASSUME j + 1 <= k PROVE At(j + 1)
    BY <1>7
  <2>1. L[14 - j] = <<q, k - j>>
    BY <1>7
  <2>2. /\ 14 - j \in 0 .. payloadDuration - 1 /\ 14 - j # 0 /\ (14 - j) - 1 = 14 - (j + 1)
        /\ 14 - (j + 1) \in 0 .. payloadDuration - 1
        /\ k - j \in Nat /\ k - j # 0 /\ ~(k - j >= payloadDuration)
    BY <1>1, <1>5, <1>7
  <2>3. Behind(L[14 - (j + 1)], <<q, k - j>>)
    BY <2>1, <2>2 DEF Run
  <2>4. <<q, k - j>>[2] = k - j
    OBVIOUS
  <2>5. <<q, k - j>> = <<L[14 - (j + 1)][1], L[14 - (j + 1)][2] + 1>>
    BY <2>2, <2>3, <2>4 DEF Behind
  <2>6. PICK r \in Sent, m \in Nat : L[14 - (j + 1)] = <<r, m>>
    BY <1>2, <2>2 DEF Place
  <2>7. r = q /\ m + 1 = k - j
    BY <2>5, <2>6
  <2>8. m = k - (j + 1)
    BY <2>2, <2>7
  <2>9. QED
    BY <2>6, <2>7, <2>8
<1>8. 0 .. 14 \subseteq Back
  <2> DEFINE Holds == {j \in Nat : j - 1 \in Back}
  <2>1. 1 \in Holds
    BY <1>6
  <2>2. ASSUME NEW j \in Nat \ {0}, j < 15, j \in Holds
        PROVE  j + 1 \in Holds
    <3>1. j - 1 \in Nat /\ j - 1 < 14 /\ (j - 1) + 1 = (j + 1) - 1
      BY <2>2
    <3>2. (j - 1) + 1 \in Back
      BY <1>7, <2>2, <3>1
    <3>3. QED
      BY <3>1, <3>2
  <2>3. Holds \in SUBSET Nat
    OBVIOUS
  <2>4. \A j \in 0 .. 14 : j + 1 \in 1 .. 15 /\ (j + 1) - 1 = j
    OBVIOUS
  <2> HIDE DEF Holds
  <2>5. 1 .. 15 \subseteq Holds
    BY <2>1, <2>2, <2>3, UpTo
  <2>6. \A j \in 0 .. 14 : (j + 1) - 1 \in Back
    BY <2>4, <2>5 DEF Holds
  <2>7. QED
    BY <2>4, <2>6
<1>9. k = 14
  <2>1. ASSUME k > 14
        PROVE  FALSE
    <3>1. L[14 - 14] = <<q, k - 14>>
      BY <1>8, <2>1
    <3>2. f[0] \in {0, Value(<<q, k - 14>>)}
      BY <1>1, <1>2, <3>1
    <3>3. k - 14 \in Nat /\ k - 14 > 0
      BY <2>1
    <3>4. QED
      BY <1>1, <3>2, <3>3, ValueIs
  <2>2. ASSUME k < 14
        PROVE  FALSE
    <3>1. L[14 - k] = <<q, 0>>
      BY <1>8, <2>2
    <3>2. 14 - k \in 1 .. payloadDuration - 1 /\ 14 - k \in 0 .. payloadDuration - 1
      BY <1>1, <2>2
    <3>3. f[14 - k] # SyncMarker
      <4>1. -SyncMarker # SyncMarker
        BY <1>1
      <4>2. QED
        BY <3>2, <4>1
    <3>4. Value(<<q, 0>>) = SyncMarker
      BY ValueIs
    <3>5. f[14 - k] = 0 /\ f[14 - k] # Value(L[14 - k])
      BY <1>1, <1>2, <3>1, <3>2, <3>3, <3>4
    <3>6. k # 0
      BY <3>5
    <3>7. L[14 - (k - 1)] = <<q, k - (k - 1)>>
      <4>1. k - 1 \in 0 .. 14 /\ k - 1 <= k
        BY <2>2, <3>6
      <4>2. QED
        BY <1>8, <4>1
    <3>8. /\ 14 - (k - 1) \in 2 .. payloadDuration - 1 /\ 14 - (k - 1) \in 0 .. payloadDuration - 1
          /\ 14 - (k - 1) # 0 /\ (14 - (k - 1)) - 1 = 14 - k /\ k - (k - 1) = 1
      BY <1>1, <2>2, <3>6
    <3>9. \/ f[14 - (k - 1)] = Value(L[14 - (k - 1)])
          \/ f[14 - k] = Value(L[14 - k])
      BY <3>8 DEF Run
    <3>10. f[14 - (k - 1)] = Value(<<q, 1>>)
      BY <3>5, <3>7, <3>8, <3>9
    <3>11. Value(<<q, 1>>) = -SyncMarker
      BY ValueIs
    <3>12. QED
      BY <3>8, <3>10, <3>11
  <2>3. QED
    BY <2>1, <2>2
<1>10. f[14] = q.editUnitDuration
  BY <1>5, <1>9, ValueIs
<1>11. QED
  BY <1>10

LEMMA PlacesGiveDurations ==
  ASSUME PlacesInv, BoundsInv
  PROVE  DurationsAreSent
<1> SUFFICES ASSUME offsetIntoFrame = payloadDuration, ValidatePayload
             PROVE  ReadSyncPacket(frame).editUnitDuration \in
                      {0} \cup {p.editUnitDuration : p \in Sent}
  BY DEF DurationsAreSent
<1>1. PICK LF : Run(frame, LF, 0, payloadDuration)
  BY DEF PlacesInv, HasPlaces, InFrame
<1>2. /\ frame[0] = SyncMarker /\ frame[1] = -SyncMarker
      /\ \A i \in 2 .. payloadDuration - 1 : frame[i] # SyncMarker /\ frame[i] # -SyncMarker
  BY DEF ValidatePayload, ValidateSyncMarkers, CheckSyncMarker, IsMarker, IsTail
<1>3. frame[14] \in {0} \cup {p.editUnitDuration : p \in Sent}
  BY <1>1, <1>2, RunHasDuration
<1>4. ReadSyncPacket(frame).editUnitDuration = frame[14] % Word
  <2>1. 4 + 2 * 5 = 14
    OBVIOUS
  <2>2. ReadSyncPacket(frame).editUnitDuration = ReadUInt16(frame, 5)
    BY DEF ReadSyncPacket
  <2>3. QED
    BY <2>1, <2>2 DEF ReadUInt16
<1>5. frame[14] \in Nat /\ frame[14] < Word
  <2>1. \A p \in Sent : p.editUnitDuration \in UInt16
    BY SEClientAssumption DEF SyncPackets
  <2>2. \A w \in Nat \ {0} : (\A u \in 0 .. w - 1 : u \in Nat /\ u < w) /\ 0 < w
    OBVIOUS
  <2>3. QED
    BY <1>3, <2>1, <2>2, WordIs DEF UInt16
<1>6. \A w \in Nat \ {0}, v \in Nat : v < w => v % w = v
  OBVIOUS
<1>7. QED
  BY <1>3, <1>4, <1>5, <1>6, WordIs

\* What a buffer is that the line fills, and where the line goes on behind it.
PlacesHeard(next) ==
  [i \in 0 .. bufferSize - 1 |->
     IF at + i < packet.editUnitDuration THEN <<packet, at + i>>
     ELSE <<next, at + i - packet.editUnitDuration>>]

LEMMA LineHeard ==
  ASSUME BufferTypes, LineTypes, LineInv, NEW next \in Sent
  PROVE  /\ PlacesHeard(next) \in PlacesOfBuffer
         /\ \A i \in 0 .. bufferSize - 1 :
              /\ LineSamples(next)[i] = Value(PlacesHeard(next)[i])
              /\ i # 0 => Behind(PlacesHeard(next)[i - 1], PlacesHeard(next)[i])
         /\ PlacesHeard(next)[0] = <<packet, at>>
<1> DEFINE duration == packet.editUnitDuration
           L == PlacesHeard(next)
<1>1. /\ duration \in Nat /\ bufferSize \in Nat \ {0} /\ at \in Nat /\ packet \in Sent
      /\ at < duration
  BY DurationIs DEF LineTypes, BufferTypes, LineInv
<1>2. \A i \in 0 .. bufferSize - 1 :
        /\ L[i] = IF at + i < duration THEN <<packet, at + i>> ELSE <<next, at + i - duration>>
        /\ LineSamples(next)[i] = IF at + i < duration THEN SampleAt(packet, at + i)
                                  ELSE SampleAt(next, at + i - duration)
  BY DEF PlacesHeard, LineSamples
<1> HIDE DEF L
<1>3. ASSUME NEW i \in 0 .. bufferSize - 1
      PROVE  L[i] \in Place /\ LineSamples(next)[i] = Value(L[i])
  <2>1. CASE at + i < duration
    <3>1. at + i \in Nat
      BY <1>1
    <3>2. QED
      BY <1>1, <1>2, <2>1, <3>1, ValueIs
  <2>2. CASE ~(at + i < duration)
    <3>1. at + i - duration \in Nat
      BY <1>1, <2>2
    <3>2. QED
      BY <1>2, <2>2, <3>1, ValueIs
  <2>3. QED
    BY <2>1, <2>2
<1>4. ASSUME NEW i \in 0 .. bufferSize - 1, i # 0
      PROVE  Behind(L[i - 1], L[i])
  <2>1. i - 1 \in 0 .. bufferSize - 1
    BY <1>1, <1>4
  <2>2. CASE at + i < duration
    <3>1. at + (i - 1) < duration /\ (at + (i - 1)) + 1 = at + i
      BY <1>1, <2>2
    <3>2. L[i - 1] = <<packet, at + (i - 1)>> /\ L[i] = <<packet, at + i>>
      BY <1>2, <2>1, <2>2, <3>1
    <3>3. QED
      BY <3>1, <3>2 DEF Behind
  <2>3. CASE at + (i - 1) < duration /\ ~(at + i < duration)
    <3>1. at + i - duration = 0
      BY <1>1, <2>3
    <3>2. L[i] = <<next, 0>>
      BY <1>2, <2>3, <3>1
    <3>3. QED
      BY <3>2 DEF Behind
  <2>4. CASE ~(at + (i - 1) < duration)
    <3>1. ~(at + i < duration) /\ (at + (i - 1) - duration) + 1 = at + i - duration
      BY <1>1, <2>4
    <3>2. L[i - 1] = <<next, at + (i - 1) - duration>> /\ L[i] = <<next, at + i - duration>>
      BY <1>2, <2>1, <2>4, <3>1
    <3>3. QED
      BY <3>1, <3>2 DEF Behind
  <2>5. QED
    BY <2>2, <2>3, <2>4
<1>5. L \in PlacesOfBuffer
  BY <1>3 DEF L, PlacesHeard, PlacesOfBuffer
<1>6. L[0] = <<packet, at>>
  <2>1. 0 \in 0 .. bufferSize - 1 /\ at + 0 = at
    BY <1>1
  <2>2. QED
    BY <1>1, <1>2, <2>1
<1>7. QED
  BY <1>3, <1>4, <1>5, <1>6 DEF L

\* The line goes on behind the buffer it has filled.
LEMMA LineGoesOn ==
  ASSUME BufferTypes, LineTypes, LineInv, NEW next \in Sent, Advance(next),
         at + bufferSize < packet.editUnitDuration \/ next \in OnLine
  PROVE  /\ Behind(PlacesHeard(next)[bufferSize - 1], <<packet', at'>>)
         /\ at' < packet'.editUnitDuration
<1> DEFINE duration == packet.editUnitDuration
           last == bufferSize - 1
<1>1. /\ duration \in Nat /\ bufferSize \in Nat \ {0} /\ at \in Nat /\ packet \in Sent
      /\ at < duration /\ next.editUnitDuration \in Nat
      /\ at + bufferSize < duration \/ next.editUnitDuration > bufferSize
  BY DurationIs DEF LineTypes, BufferTypes, LineInv, OnLine
<1>2. PlacesHeard(next)[last] = IF at + last < duration THEN <<packet, at + last>>
                                ELSE <<next, at + last - duration>>
  <2>1. last \in 0 .. bufferSize - 1
    BY <1>1
  <2> HIDE DEF last
  <2>2. QED
    BY <2>1 DEF PlacesHeard
<1>3. CASE at + bufferSize < duration
  <2>1. at' = at + bufferSize /\ packet' = packet
    BY <1>3 DEF Advance
  <2>2. at + last < duration /\ (at + last) + 1 = at'
    BY <1>1, <1>3, <2>1
  <2>3. QED
    BY <1>2, <1>3, <2>1, <2>2 DEF Behind
<1>4. CASE ~(at + bufferSize < duration)
  <2>1. packet' = next /\ at' = at + bufferSize - duration
    BY <1>4 DEF Advance
  <2>2. at' \in Nat /\ at' < next.editUnitDuration
    BY <1>1, <1>4, <2>1
  <2>3. CASE at' = 0
    BY <2>1, <2>2, <2>3 DEF Behind
  <2>4. CASE at' # 0
    <3>1. ~(at + last < duration) /\ (at + last - duration) + 1 = at'
      BY <1>1, <1>4, <2>1, <2>2, <2>4
    <3>2. QED
      BY <1>2, <2>1, <2>2, <3>1 DEF Behind
  <2>5. QED
    BY <2>3, <2>4
<1>5. QED
  BY <1>3, <1>4

\* A buffer is queued.
LEMMA PlacesQueued ==
  ASSUME BufferTypes, QueueTypes, NEW LS, HeardAll(LS), NEW samples, NEW owes,
         Queues(samples, owes), UNCHANGED bufferSize, UNCHANGED popped,
         NEW L \in PlacesOfBuffer, Heard(samples, L, 0),
         Behind(LS[Len(LS)][bufferSize - 1], L[0]),
         Behind(L[bufferSize - 1], <<packet', at'>>)
  PROVE  \E LT : HeardAll(LT)' /\ LT[1] = LS[1]
<1> DEFINE e == [samples |-> samples, owed |-> owes]
           LT == Append(LS, L)
           n == Len(Pending)
<1>1. Pending' = Append(Pending, e) /\ Pending \in Seq(Queued) /\ n \in Nat
  <2>1. \A S : \A q, r \in Seq(S) : q \o r \in Seq(S) /\ Len(q \o r) \in Nat
    OBVIOUS
  <2>2. \A q, r \in Seq(Queued) : \A x : q \o Append(r, x) = Append(q \o r, x)
    OBVIOUS
  <2>3. sampleQueue' = Append(sampleQueue, e)
    BY DEF Queues
  <2>4. QED
    BY <2>1, <2>2, <2>3 DEF Pending, QueueTypes
<1>2. /\ LS \in Seq(PlacesOfBuffer) /\ Len(LS) = n + 1
      /\ \A k \in 1 .. n :
           Heard(Pending[k].samples, LS[k + 1], 0) /\ Behind(LS[k][bufferSize - 1], LS[k + 1][0])
  BY DEF HeardAll
<1>3. /\ LT \in Seq(PlacesOfBuffer) /\ Len(LT) = (n + 1) + 1
      /\ \A k \in 1 .. n + 1 : LT[k] = LS[k]
      /\ LT[(n + 1) + 1] = L
  <2>1. \A S : \A q \in Seq(S), x \in S :
          /\ Append(q, x) \in Seq(S) /\ Len(Append(q, x)) = Len(q) + 1
          /\ \A k \in 1 .. Len(q) : Append(q, x)[k] = q[k]
          /\ Append(q, x)[Len(q) + 1] = x
    OBVIOUS
  <2>2. QED
    BY <1>2, <2>1
<1>4. /\ Len(Pending') = n + 1 /\ Pending'[n + 1].samples = samples
      /\ \A k \in 1 .. n : Pending'[k] = Pending[k]
  <2>1. \A S : \A q \in Seq(S) : \A x :
          /\ Len(Append(q, x)) = Len(q) + 1
          /\ \A k \in 1 .. Len(q) : Append(q, x)[k] = q[k]
          /\ Append(q, x)[Len(q) + 1] = x
    OBVIOUS
  <2>2. /\ Len(Pending') = n + 1 /\ Pending'[n + 1] = e
        /\ \A k \in 1 .. n : Pending'[k] = Pending[k]
    BY <1>1, <2>1, Zenon
  <2>3. QED
    BY <2>2
<1> HIDE DEF LT, n, e
<1>5. ASSUME NEW k \in 1 .. n + 1
      PROVE  Heard(Pending'[k].samples, LT[k + 1], 0) /\ Behind(LT[k][bufferSize - 1], LT[k + 1][0])
  <2>1. CASE k = n + 1
    BY <1>1, <1>2, <1>3, <1>4, <2>1
  <2>2. CASE k # n + 1
    <3>1. k \in 1 .. n /\ k + 1 \in 1 .. n + 1
      BY <1>1, <2>2
    <3>2. QED
      BY <1>2, <1>3, <1>4, <3>1
  <2>3. QED
    BY <2>1, <2>2
<1>6. Len(LT) \in Nat /\ LT[Len(LT)] = L /\ LT[1] = LS[1]
  BY <1>1, <1>3
<1>7. HeardAll(LT)'
  BY <1>1, <1>3, <1>4, <1>5, <1>6 DEF HeardAll, Heard, Run, PlacesOfBuffer
<1>8. QED
  BY <1>6, <1>7

\* The parser does not move while the line goes on.
LEMMA ParserStays ==
  ASSUME UNCHANGED vvars, NEW LF, NEW LS,
         Heard(currentAudioBuffer, LS[1], currentSample), InFrame(LF, LS[1]),
         NEW LT, HeardAll(LT)', LT[1] = LS[1]
  PROVE  HasPlaces'
<1>1. Heard(currentAudioBuffer, LT[1], currentSample)'
  BY DEF Heard, Run, vvars, bufferVars
<1>2. InFrame(LF, LT[1])'
  BY DEF InFrame, Joined, Run, vvars, bufferVars, frameVars
<1>3. QED
  BY <1>1, <1>2 DEF HasPlaces

LEMMA ZerosAreFill ==
  ASSUME BufferTypes, NEW p \in Sent, NEW L, L = [i \in 0 .. bufferSize - 1 |-> <<p, payloadDuration>>]
  PROVE  /\ L \in PlacesOfBuffer /\ Heard(Zeros(bufferSize), L, 0)
         /\ L[0] = <<p, payloadDuration>> /\ L[bufferSize - 1] = <<p, payloadDuration>>
<1>1. bufferSize \in Nat \ {0} /\ payloadDuration \in Nat
  BY PayloadIs DEF BufferTypes
<1>2. <<p, payloadDuration>> \in Place /\ Value(<<p, payloadDuration>>) = 0
  BY <1>1, ValueIs
<1>3. \A i \in 0 .. bufferSize - 1 : L[i] = <<p, payloadDuration>> /\ Zeros(bufferSize)[i] = 0
  BY DEF Zeros
<1>4. \A i \in 0 .. bufferSize - 1 : i # 0 => i - 1 \in 0 .. bufferSize - 1
  BY <1>1
<1>5. 0 \in 0 .. bufferSize - 1 /\ bufferSize - 1 \in 0 .. bufferSize - 1
  BY <1>1
<1>6. Behind(<<p, payloadDuration>>, <<p, payloadDuration>>)
  BY <1>1 DEF Behind
<1>7. L \in PlacesOfBuffer
  BY <1>2 DEF PlacesOfBuffer
<1>8. Run(Zeros(bufferSize), L, 0, bufferSize)
  BY <1>2, <1>3, <1>4, <1>6 DEF Run
<1>9. QED
  BY <1>2, <1>3, <1>5, <1>7, <1>8 DEF Heard

\* What the line plays, whole or with one dropout.
LEMMA SamplesHeard ==
  ASSUME BufferTypes, LineTypes, LineInv, 0 \notin DropoutsAt, NEW next \in Sent, NEW samples,
         \/ samples = LineSamples(next)
         \/ \E i \in DropoutsAt : i < bufferSize /\ samples = [LineSamples(next) EXCEPT ![i] = 0]
  PROVE  Heard(samples, PlacesHeard(next), 0)
<1> DEFINE L == PlacesHeard(next)
           line == LineSamples(next)
<1>1. /\ L \in PlacesOfBuffer /\ bufferSize \in Nat \ {0} /\ line \in Buffers
      /\ \A i \in 0 .. bufferSize - 1 :
           line[i] = Value(L[i]) /\ (i # 0 => Behind(L[i - 1], L[i]))
  BY LineHeard, LineType DEF BufferTypes
<1> HIDE DEF L, line
<1>2. \E d : /\ d # 0
             /\ \A i \in 0 .. bufferSize - 1 : samples[i] = IF i = d THEN 0 ELSE line[i]
  <2>1. CASE samples = line
    <3>1. -1 # 0 /\ \A i \in 0 .. bufferSize - 1 : i # -1
      OBVIOUS
    <3>2. QED
      BY <2>1, <3>1
  <2>2. CASE \E i \in DropoutsAt : i < bufferSize /\ samples = [line EXCEPT ![i] = 0]
    <3>1. PICK d \in DropoutsAt : samples = [line EXCEPT ![d] = 0]
      BY <2>2
    <3>2. d # 0
      OBVIOUS
    <3>3. \A i \in 0 .. bufferSize - 1 : samples[i] = IF i = d THEN 0 ELSE line[i]
      BY <1>1, <3>1 DEF Buffers
    <3>4. QED
      BY <3>2, <3>3
  <2>3. QED
    BY <2>1, <2>2 DEF line
<1>3. PICK d : /\ d # 0
               /\ \A i \in 0 .. bufferSize - 1 : samples[i] = IF i = d THEN 0 ELSE line[i]
  BY <1>2
<1>4. ASSUME NEW i \in 0 .. bufferSize - 1
      PROVE  /\ L[i] \in Place /\ samples[i] \in {0, Value(L[i])}
             /\ i # 0 => /\ Behind(L[i - 1], L[i])
                         /\ samples[i] = Value(L[i]) \/ samples[i - 1] = Value(L[i - 1])
  <2>1. L[i] \in Place
    BY <1>1 DEF PlacesOfBuffer
  <2>2. samples[i] \in {0, Value(L[i])}
    BY <1>1, <1>3
  <2>3. ASSUME i # 0
        PROVE  samples[i] = Value(L[i]) \/ samples[i - 1] = Value(L[i - 1])
    <3>1. i - 1 \in 0 .. bufferSize - 1 /\ i - 1 # i
      BY <1>1, <2>3
    <3>2. QED
      BY <1>1, <1>3, <3>1
  <2>4. QED
    BY <1>1, <2>1, <2>2, <2>3
<1>5. samples[0] = Value(L[0])
  <2>1. 0 \in 0 .. bufferSize - 1
    BY <1>1
  <2>2. QED
    BY <1>1, <1>3, <2>1
<1>6. QED
  BY <1>4, <1>5 DEF Heard, Run, L

LEMMA InitPlaces == ClientInit => PlacesInv
<1> SUFFICES ASSUME ClientInit PROVE PlacesInv
  OBVIOUS
<1>1. /\ bufferSize \in Nat \ {0} /\ currentSample = bufferSize /\ offsetIntoFrame = 0
      /\ sampleQueue = <<>> /\ popped = <<>> /\ silent = FALSE /\ packet \in Sent
      /\ bufferSize \in BufferSizes /\ at < packet.editUnitDuration
  BY FrameValidatorAssumption DEF ClientInit, Init, OnLine
<1>2. at \in Nat /\ at <= payloadDuration /\ payloadDuration \in Nat
  BY SEClientAssumption, PayloadIs DEF ClientInit
<1>3. LineInv
  <2>1. popped = <<>>
    BY <1>1
  <2>2. QED
    BY <1>1, <2>1 DEF LineInv
<1> DEFINE before == IF at = 0 THEN payloadDuration ELSE at - 1
           LB == [i \in 0 .. bufferSize - 1 |-> <<packet, before>>]
           LS == <<LB>>
<1>4. before \in Nat /\ (at # 0 => before + 1 = at)
  BY <1>2
<1> HIDE DEF before
<1>5. LB \in PlacesOfBuffer
  BY <1>1, <1>4 DEF PlacesOfBuffer, Place
<1>6. LB[bufferSize - 1] = <<packet, before>>
  <2>1. bufferSize - 1 \in 0 .. bufferSize - 1
    BY <1>1
  <2>2. QED
    BY <2>1
<1> HIDE DEF LB
<1>7. Behind(LB[bufferSize - 1], <<packet, at>>)
  BY <1>4, <1>6 DEF Behind
<1>8. LS \in Seq(PlacesOfBuffer) /\ Len(LS) = 1 /\ LS[1] = LB
  BY <1>5
<1>9. Len(Pending) = 0
  BY <1>1 DEF Pending
<1>10. HeardAll(LS)
  BY <1>7, <1>8, <1>9 DEF HeardAll
<1>11. Heard(currentAudioBuffer, LS[1], currentSample)
  BY <1>1 DEF Heard, Run
<1>12. InFrame(LB, LS[1])
  BY <1>1 DEF InFrame, Run, Joined
<1>13. QED
  BY <1>3, <1>10, <1>11, <1>12 DEF PlacesInv, HasPlaces

\* A gap ends where a frame, or its fill, begins.
LEMMA LineSteps ==
  ASSUME ~Splices, BoundsInv, LineInv, Next
  PROVE  LineInv'
<1>1. /\ bufferSize \in Nat \ {0} /\ at \in Nat /\ packet \in Sent /\ payloadDuration \in Nat
      /\ at < packet.editUnitDuration /\ packet.editUnitDuration \in Nat
  BY DurationIs, PayloadIs DEF BoundsInv, LineTypes, BufferTypes, LineInv
<1>2. \A sample \in Nat : MayResume(sample) => sample = 0 \/ sample >= payloadDuration
  BY <1>1 DEF MayResume
<1>3. CASE audioDeviceIOCallback
  <2>1. bufferSize' = bufferSize /\ popped' = popped
    BY <1>3 DEF audioDeviceIOCallback, vvars, bufferVars
  <2>2. CASE HearSilence
    <3>1. packet' = packet /\ at' = at
      BY <2>2 DEF HearSilence
    <3>2. at = 0 \/ at >= payloadDuration
      BY <1>1, <1>2, <2>2 DEF HearSilence, LineInv
    <3>3. QED
      BY <2>1, <3>1, <3>2 DEF LineInv
  <2>3. CASE HearFrame
    BY <1>1, <2>1, <2>3 DEF HearFrame, LineInv
  <2>4. ASSUME NEW next \in NextPackets, HearEndOfFrame(next) \/ HearDropout(next) \/ LoseSamples(next)
        PROVE  LineInv'
    <3>1. next \in Sent /\ next \in OnLine
      BY DEF NextPackets, OnLine
    <3>2. Advance(next) /\ silent' = FALSE
      BY <1>1, <2>4 DEF HearEndOfFrame, HearDropout, LoseSamples, Advance
    <3>3. at' < packet'.editUnitDuration
      BY <3>1, <3>2, LineGoesOn DEF BoundsInv
    <3>4. QED
      BY <2>1, <3>2, <3>3 DEF LineInv
  <2>5. QED
    BY <1>3, <2>2, <2>3, <2>4 DEF audioDeviceIOCallback
<1>4. CASE PopBuffer
  <2>1. Len(popped') = 1
    BY <1>4 DEF PopBuffer
  <2>2. UNCHANGED <<bufferSize, packet, at, silent>>
    BY <1>4 DEF PopBuffer, vvars, bufferVars, lineVars
  <2>3. QED
    BY <2>1, <2>2 DEF LineInv
<1>5. CASE RecycleBuffer
  <2>1. popped' = <<>>
    BY <1>5 DEF RecycleBuffer
  <2>2. UNCHANGED <<bufferSize, packet, at, silent>>
    BY <1>5 DEF RecycleBuffer, AddSamples, lineVars
  <2>3. QED
    BY <2>1, <2>2 DEF LineInv
<1>6. CASE Parse
  <2>1. bufferSize' = bufferSize
    BY <1>6, ParseKeepsBuffer DEF Parse
  <2>2. UNCHANGED <<popped, packet, at, silent>>
    BY <1>6 DEF Parse, lineVars
  <2>3. QED
    BY <2>1, <2>2 DEF LineInv
<1>7. CASE Undefined
  <2>1. UNCHANGED <<bufferSize, popped, packet, at, silent>>
    BY <1>7 DEF Undefined, vars, vvars, bufferVars, lineVars
  <2>2. QED
    BY <2>1 DEF LineInv
<1>8. QED
  BY <1>3, <1>4, <1>5, <1>6, <1>7 DEF Next

\* Every sample the line brings has its place.
LEMMA LinePlaces ==
  ASSUME ~Splices, 0 \notin DropoutsAt, BoundsInv, PlacesInv, audioDeviceIOCallback
  PROVE  HasPlaces'
<1>1. PICK LF, LS : /\ HeardAll(LS) /\ Heard(currentAudioBuffer, LS[1], currentSample)
                    /\ InFrame(LF, LS[1])
  BY DEF PlacesInv, HasPlaces
<1>2. /\ bufferSize \in Nat \ {0} /\ at \in Nat /\ packet \in Sent /\ payloadDuration \in Nat
      /\ at < packet.editUnitDuration /\ packet.editUnitDuration \in Nat
      /\ BufferTypes /\ QueueTypes /\ LineTypes /\ LineInv
  BY DurationIs, PayloadIs DEF BoundsInv, LineTypes, BufferTypes, PlacesInv, LineInv
<1>3. UNCHANGED vvars /\ UNCHANGED bufferSize /\ UNCHANGED popped
  BY DEF audioDeviceIOCallback, vvars, bufferVars
<1>4. \A LT : HeardAll(LT)' /\ LT[1] = LS[1] => HasPlaces'
  BY <1>1, <1>3, ParserStays
<1>5. Behind(LS[Len(LS)][bufferSize - 1], <<packet, at>>)
  BY <1>1 DEF HeardAll
<1>6. CASE HearSilence
  <2> DEFINE L == [i \in 0 .. bufferSize - 1 |-> <<packet, payloadDuration>>]
  <2>1. /\ L \in PlacesOfBuffer /\ Heard(Zeros(bufferSize), L, 0)
        /\ L[0] = <<packet, payloadDuration>> /\ L[bufferSize - 1] = <<packet, payloadDuration>>
    BY <1>2, ZerosAreFill
  <2> HIDE DEF L
  <2>2. at = 0 \/ at >= payloadDuration
    <3>1. MayResume(at) => at = 0 \/ at >= payloadDuration
      BY <1>2 DEF MayResume
    <3>2. QED
      BY <1>2, <1>6, <3>1 DEF HearSilence, LineInv
  <2>3. packet' = packet /\ at' = at /\ Queues(Zeros(bufferSize), NothingOwed)
    BY <1>6 DEF HearSilence
  <2>4. Behind(LS[Len(LS)][bufferSize - 1], L[0]) /\ Behind(L[bufferSize - 1], <<packet', at'>>)
    BY <1>2, <2>1, <2>2, <2>3 DEF Behind
  <2>5. \E LT : HeardAll(LT)' /\ LT[1] = LS[1]
    BY <1>1, <1>2, <1>3, <2>1, <2>3, <2>4, PlacesQueued
  <2>6. QED
    BY <1>4, <2>5
<1>7. ASSUME NEW next \in Sent, Advance(next), NEW samples, NEW owes, Queues(samples, owes),
             at + bufferSize < packet.editUnitDuration \/ next \in OnLine,
             Heard(samples, PlacesHeard(next), 0)
      PROVE  HasPlaces'
  <2>1. PlacesHeard(next) \in PlacesOfBuffer /\ PlacesHeard(next)[0] = <<packet, at>>
    BY <1>2, LineHeard
  <2>2. Behind(PlacesHeard(next)[bufferSize - 1], <<packet', at'>>)
    BY <1>2, <1>7, LineGoesOn
  <2>3. Behind(LS[Len(LS)][bufferSize - 1], PlacesHeard(next)[0])
    BY <1>5, <2>1
  <2>4. \E LT : HeardAll(LT)' /\ LT[1] = LS[1]
    BY <1>1, <1>2, <1>3, <1>7, <2>1, <2>2, <2>3, PlacesQueued
  <2>5. QED
    BY <1>4, <2>4
<1>8. CASE HearFrame
  <2>1. /\ Advance(packet) /\ Queues(LineSamples(packet), owed)
        /\ at + bufferSize < packet.editUnitDuration
    BY <1>8 DEF HearFrame, Advance
  <2>2. QED
    BY <1>2, <1>7, <2>1, SamplesHeard
<1>9. ASSUME NEW next \in NextPackets, HearEndOfFrame(next) \/ HearDropout(next)
      PROVE  HasPlaces'
  <2>1. next \in Sent /\ next \in OnLine
    BY DEF NextPackets, OnLine
  <2>2. Advance(next)
    BY <1>2, <1>9 DEF HearEndOfFrame, HearDropout, Advance
  <2>3. \E samples, owes :
          /\ Queues(samples, owes)
          /\ \/ samples = LineSamples(next)
             \/ \E i \in DropoutsAt : i < bufferSize /\ samples = [LineSamples(next) EXCEPT ![i] = 0]
    BY <1>9 DEF HearEndOfFrame, HearDropout
  <2>4. PICK samples, owes :
          /\ Queues(samples, owes)
          /\ \/ samples = LineSamples(next)
             \/ \E i \in DropoutsAt : i < bufferSize /\ samples = [LineSamples(next) EXCEPT ![i] = 0]
    BY <2>3
  <2>5. Heard(samples, PlacesHeard(next), 0)
    BY <1>2, <2>1, <2>4, SamplesHeard
  <2>6. QED
    BY <1>7, <2>1, <2>2, <2>4, <2>5
<1>10. ASSUME NEW next \in NextPackets, LoseSamples(next)
       PROVE  HasPlaces'
  <2>1. next \in Sent
    BY DEF NextPackets, OnLine
  <2>2. at' = 0 \/ at' >= payloadDuration
    <3>1. at' \in Nat
      BY <1>2, <1>10 DEF LoseSamples, Advance
    <3>2. QED
      BY <1>2, <1>10, <3>1 DEF LoseSamples, MayResume
  <2>3. UNCHANGED <<bufferSize, popped, sampleQueue>>
    BY <1>3, <1>10 DEF LoseSamples
  <2>4. Behind(LS[Len(LS)][bufferSize - 1], <<packet', at'>>)
    BY <2>2 DEF Behind
  <2>5. HeardAll(LS)'
    BY <1>1, <2>3, <2>4 DEF HeardAll, Heard, Run, Pending, PlacesOfBuffer
  <2>6. QED
    BY <1>4, <2>5
<1>11. QED
  BY <1>6, <1>8, <1>9, <1>10 DEF audioDeviceIOCallback

\* A buffer that is popped is still what is parsed next.
LEMMA PopPlaces ==
  ASSUME BoundsInv, PlacesInv, PopBuffer
  PROVE  HasPlaces'
<1>1. PICK LF, LS : /\ HeardAll(LS) /\ Heard(currentAudioBuffer, LS[1], currentSample)
                    /\ InFrame(LF, LS[1])
  BY DEF PlacesInv, HasPlaces
<1>2. Pending' = Pending
  <2>1. \A S : \A q \in Seq(S) : q # <<>> => <<Head(q)>> \o Tail(q) = <<>> \o q
    OBVIOUS
  <2>2. sampleQueue \in Seq(Queued)
    BY DEF BoundsInv, QueueTypes
  <2>3. QED
    BY <2>1, <2>2 DEF PopBuffer, Pending
<1>3. UNCHANGED vvars /\ UNCHANGED bufferSize /\ UNCHANGED lineVars
  BY DEF PopBuffer, vvars, bufferVars
<1>4. HeardAll(LS)'
  BY <1>1, <1>2, <1>3 DEF HeardAll, Heard, Run, PlacesOfBuffer, lineVars
<1>5. QED
  BY <1>1, <1>3, <1>4, ParserStays

\* The buffer the parser goes on with is behind the one it is done with.
LEMMA RecyclePlaces ==
  ASSUME BoundsInv, PlacesInv, RecycleBuffer
  PROVE  HasPlaces'
<1>1. PICK LF, LS : /\ HeardAll(LS) /\ Heard(currentAudioBuffer, LS[1], currentSample)
                    /\ InFrame(LF, LS[1])
  BY DEF PlacesInv, HasPlaces
<1> DEFINE LT == Tail(LS)
           n == Len(sampleQueue)
<1>2. /\ sampleQueue \in Seq(Queued) /\ popped \in Seq(Queued) /\ Len(popped) = 1 /\ n \in Nat
  <2>1. sampleQueue \in Seq(Queued) /\ popped \in Seq(Queued)
    BY DEF BoundsInv, QueueTypes
  <2>2. \A S : \A q \in Seq(S) : Len(q) \in Nat
    OBVIOUS
  <2>3. Len(popped) = 1
    BY DEF RecycleBuffer, PlacesInv, LineInv
  <2>4. QED
    BY <2>1, <2>2, <2>3
<1>3. /\ Len(Pending) = n + 1 /\ Pending[1] = popped[1]
      /\ \A k \in 1 .. n : Pending[k + 1] = sampleQueue[k]
  <2>1. \A S : \A q, r \in Seq(S) :
          /\ Len(q \o r) = Len(q) + Len(r)
          /\ \A k \in 1 .. Len(q) + Len(r) :
               (q \o r)[k] = IF k <= Len(q) THEN q[k] ELSE r[k - Len(q)]
    OBVIOUS
  <2>2. /\ Len(Pending) = 1 + n
        /\ \A k \in 1 .. 1 + n : Pending[k] = IF k <= 1 THEN popped[1] ELSE sampleQueue[k - 1]
    <3>1. Len(Pending) = 1 + n
      BY <1>2, <2>1 DEF Pending
    <3>2. \A k \in 1 .. 1 + n : Pending[k] = IF k <= 1 THEN popped[k] ELSE sampleQueue[k - 1]
      BY <1>2, <2>1 DEF Pending
    <3>3. \A k \in 1 .. 1 + n : k <= 1 => k = 1
      OBVIOUS
    <3>4. QED
      BY <3>1, <3>2, <3>3
  <2>3. 1 \in 1 .. 1 + n /\ \A k \in 1 .. n : k + 1 \in 1 .. 1 + n /\ ~(k + 1 <= 1) /\ (k + 1) - 1 = k
    BY <1>2
  <2> HIDE DEF n
  <2>4. QED
    BY <1>2, <2>2, <2>3
<1>4. Pending' = sampleQueue
  <2>1. \A S : \A q \in Seq(S) : <<>> \o q = q
    OBVIOUS
  <2>2. QED
    BY <1>2, <2>1 DEF Pending, RecycleBuffer
<1>5. /\ LT \in Seq(PlacesOfBuffer) /\ Len(LT) = n + 1
      /\ \A k \in 1 .. n + 1 : LT[k] = LS[k + 1]
  <2>1. \A S : \A q \in Seq(S), m \in Nat : Len(q) = (m + 1) + 1 =>
          /\ Tail(q) \in Seq(S) /\ Len(Tail(q)) = m + 1
          /\ \A k \in 1 .. m + 1 : Tail(q)[k] = q[k + 1]
    OBVIOUS
  <2>2. LS \in Seq(PlacesOfBuffer) /\ Len(LS) = (n + 1) + 1
    BY <1>1, <1>3 DEF HeardAll
  <2>3. QED
    BY <1>2, <2>1, <2>2
<1> HIDE DEF LT, n
<1>6. /\ bufferSize' = bufferSize /\ packet' = packet /\ at' = at
      /\ currentAudioBuffer' = popped[1].samples /\ currentSample' = 0
      /\ frame' = frame /\ offsetIntoFrame' = offsetIntoFrame
  BY DEF RecycleBuffer, AddSamples, frameVars, lineVars
<1>7. \A k \in 1 .. n + 1 :
        Heard(Pending[k].samples, LS[k + 1], 0) /\ Behind(LS[k][bufferSize - 1], LS[k + 1][0])
  BY <1>1, <1>3 DEF HeardAll
<1>8. ASSUME NEW k \in 1 .. n
      PROVE  Heard(sampleQueue[k].samples, LT[k + 1], 0) /\ Behind(LT[k][bufferSize - 1], LT[k + 1][0])
  <2>1. k + 1 \in 1 .. n + 1 /\ k \in 1 .. n + 1
    BY <1>2
  <2>2. QED
    BY <1>3, <1>5, <1>7, <2>1
<1>9. Behind(LT[Len(LT)][bufferSize - 1], <<packet, at>>)
  <2>1. Len(LS) = (n + 1) + 1 /\ n + 1 \in 1 .. n + 1
    BY <1>1, <1>2, <1>3 DEF HeardAll
  <2>2. LT[Len(LT)] = LS[Len(LS)]
    BY <1>5, <2>1
  <2>3. QED
    BY <1>1, <2>2 DEF HeardAll
<1>10. HeardAll(LT)'
  <2>1. Len(Pending') = n
    BY <1>4 DEF n
  <2>2. QED
    BY <1>4, <1>5, <1>6, <1>8, <1>9, <2>1 DEF HeardAll, Heard, Run, PlacesOfBuffer
<1>11. 1 \in 1 .. n + 1 /\ LT[1] = LS[2]
  BY <1>2, <1>5
<1>12. Heard(currentAudioBuffer, LT[1], currentSample)'
  <2>1. Heard(popped[1].samples, LT[1], 0)
    BY <1>3, <1>7, <1>11
  <2>2. QED
    BY <1>6, <2>1 DEF Heard, Run
<1>13. InFrame(LF, LT[1])'
  <2>1. Run(frame, LF, 0, offsetIntoFrame)'
    BY <1>1, <1>6 DEF InFrame, Run
  <2>2. currentSample = bufferSize /\ currentSample # 0
    BY DEF RecycleBuffer, AddSamples, Idle, BoundsInv, BufferTypes
  <2>3. offsetIntoFrame > 0 => LF[offsetIntoFrame - 1] = LS[1][bufferSize - 1]
    BY <1>1, <2>2 DEF InFrame, Joined
  <2>4. Behind(LS[1][bufferSize - 1], LT[1][0])
    BY <1>7, <1>11
  <2>5. Joined(LF, LT[1])'
    BY <1>6, <2>3, <2>4 DEF Joined
  <2>6. QED
    BY <2>1, <2>5 DEF InFrame
<1>14. QED
  BY <1>10, <1>12, <1>13 DEF HasPlaces

\* The samples that are taken keep their places.
LEMMA TakenPlaces ==
  ASSUME BufferTypes, FrameTypes, NEW LF, NEW LB, NEW n, Taken(n), UNCHANGED bufferVars,
         Heard(currentAudioBuffer, LB, currentSample), InFrame(LF, LB)
  PROVE  \E MF : InFrame(MF, LB)'
<1> DEFINE c == currentSample
           offset == offsetIntoFrame
           M == [i \in 0 .. offset + n - 1 |-> IF i < offset THEN LF[i] ELSE LB[c + i - offset]]
<1>1. /\ bufferSize \in Nat \ {0} /\ c \in Nat /\ offset \in Nat /\ currentFrameDuration \in Nat
      /\ n \in Nat /\ c + n <= bufferSize /\ offset + n <= currentFrameDuration
      /\ c' = c + n /\ offset' = offset + n
      /\ \A i \in 0 .. currentFrameDuration - 1 :
           frame'[i] = IF offset <= i /\ i < offset + n THEN currentAudioBuffer[c + i - offset]
                       ELSE frame[i]
  BY DEF BufferTypes, FrameTypes, Taken
<1>2. currentAudioBuffer' = currentAudioBuffer
  BY DEF bufferVars
<1>3. PICK MF : \A i \in 0 .. offset + n - 1 :
        /\ i < offset => MF[i] = LF[i] /\ frame'[i] = frame[i]
        /\ i >= offset => MF[i] = LB[c + i - offset] /\ frame'[i] = currentAudioBuffer[c + i - offset]
  <2>1. \A i \in 0 .. offset + n - 1 :
          /\ i < offset => M[i] = LF[i] /\ frame'[i] = frame[i]
          /\ i >= offset => M[i] = LB[c + i - offset] /\ frame'[i] = currentAudioBuffer[c + i - offset]
    BY <1>1
  <2> HIDE DEF M
  <2>2. QED
    BY <2>1
<1> HIDE DEF M
<1>4. /\ \A i \in 0 .. offset - 1 :
           /\ LF[i] \in Place /\ frame[i] \in {0, Value(LF[i])}
           /\ i # 0 => /\ Behind(LF[i - 1], LF[i])
                       /\ frame[i] = Value(LF[i]) \/ frame[i - 1] = Value(LF[i - 1])
      /\ \A j \in c .. bufferSize - 1 :
           /\ LB[j] \in Place /\ currentAudioBuffer[j] \in {0, Value(LB[j])}
           /\ j # 0 => /\ Behind(LB[j - 1], LB[j])
                       /\ \/ currentAudioBuffer[j] = Value(LB[j])
                          \/ currentAudioBuffer[j - 1] = Value(LB[j - 1])
      /\ c = 0 => currentAudioBuffer[0] = Value(LB[0])
  BY DEF InFrame, Heard, Run
<1>5. offset > 0 =>
        /\ c = 0 => Behind(LF[offset - 1], LB[0])
        /\ c # 0 => LF[offset - 1] = LB[c - 1] /\ frame[offset - 1] = currentAudioBuffer[c - 1]
  BY DEF InFrame, Joined
<1>6. ASSUME NEW i \in 0 .. offset + n - 1
      PROVE  /\ MF[i] \in Place /\ frame'[i] \in {0, Value(MF[i])}
             /\ i # 0 => /\ Behind(MF[i - 1], MF[i])
                         /\ frame'[i] = Value(MF[i]) \/ frame'[i - 1] = Value(MF[i - 1])
  <2>1. CASE i < offset
    <3>1. i \in 0 .. offset - 1 /\ (i # 0 => i - 1 \in 0 .. offset + n - 1 /\ i - 1 < offset)
      BY <1>1, <2>1
    <3>2. QED
      BY <1>3, <1>4, <2>1, <3>1
  <2>2. CASE i > offset
    <3>1. /\ i >= offset /\ i - 1 >= offset /\ i - 1 \in 0 .. offset + n - 1
          /\ c + i - offset \in c .. bufferSize - 1 /\ c + i - offset # 0
          /\ c + (i - 1) - offset = (c + i - offset) - 1
      BY <1>1, <2>2
    <3>2. QED
      BY <1>3, <1>4, <3>1
  <2>3. CASE i = offset
    <3>1. c \in c .. bufferSize - 1 /\ i >= offset /\ c + i - offset = c
      BY <1>1, <2>3
    <3>2. MF[i] = LB[c] /\ frame'[i] = currentAudioBuffer[c]
      BY <1>3, <3>1
    <3>3. ASSUME i # 0
          PROVE  /\ Behind(MF[i - 1], MF[i])
                 /\ frame'[i] = Value(MF[i]) \/ frame'[i - 1] = Value(MF[i - 1])
      <4>1. offset > 0 /\ i - 1 = offset - 1 /\ i - 1 \in 0 .. offset + n - 1 /\ i - 1 < offset
        BY <1>1, <2>3, <3>3
      <4>2. MF[i - 1] = LF[offset - 1] /\ frame'[i - 1] = frame[offset - 1]
        BY <1>3, <4>1
      <4>3. CASE c = 0
        BY <1>4, <1>5, <3>2, <4>1, <4>2, <4>3
      <4>4. CASE c # 0
        BY <1>4, <1>5, <3>1, <3>2, <4>1, <4>2, <4>4
      <4>5. QED
        BY <4>3, <4>4
    <3>4. QED
      BY <1>4, <3>1, <3>2, <3>3
  <2>4. QED
    BY <1>1, <2>1, <2>2, <2>3
<1>7. Run(frame, MF, 0, offsetIntoFrame)'
  BY <1>1, <1>6 DEF Run
<1>8. Joined(MF, LB)'
  <2>1. CASE n = 0
    <3>1. offset > 0 => offset - 1 \in 0 .. offset + n - 1 /\ offset - 1 < offset
      BY <1>1, <2>1
    <3>2. offset > 0 => MF[offset - 1] = LF[offset - 1] /\ frame'[offset - 1] = frame[offset - 1]
      BY <1>3, <3>1
    <3>3. c' = c /\ offset' = offset
      BY <1>1, <2>1
    <3>4. QED
      BY <1>2, <1>5, <3>2, <3>3 DEF Joined
  <2>2. CASE n # 0
    <3>1. /\ offset + n - 1 \in 0 .. offset + n - 1 /\ offset + n - 1 >= offset
          /\ c + (offset + n - 1) - offset = c + n - 1 /\ c + n # 0
      BY <1>1, <2>2
    <3>2. MF[offset + n - 1] = LB[c + n - 1] /\ frame'[offset + n - 1] = currentAudioBuffer[c + n - 1]
      BY <1>3, <3>1
    <3>3. QED
      BY <1>1, <1>2, <3>1, <3>2 DEF Joined
  <2>3. QED
    BY <2>1, <2>2
<1>9. QED
  BY <1>7, <1>8 DEF InFrame

\* What is not yet parsed stays where it is.
LEMMA ParseLeavesTheRest ==
  ASSUME BoundsInv, Parse, NEW LS, HeardAll(LS), Heard(currentAudioBuffer, LS[1], currentSample),
         currentSample' \in Nat, currentSample' >= currentSample
  PROVE  HeardAll(LS)' /\ Heard(currentAudioBuffer, LS[1], currentSample)'
<1>1. UNCHANGED bufferSize /\ UNCHANGED currentAudioBuffer
  BY ParseKeepsBuffer DEF Parse
<1>2. UNCHANGED Pending /\ UNCHANGED packet /\ UNCHANGED at
  BY DEF Parse, Pending, lineVars
<1>3. HeardAll(LS)'
  BY <1>1, <1>2 DEF HeardAll, Heard, Run, PlacesOfBuffer
<1>4. /\ \A i \in currentSample' .. bufferSize - 1 : i \in currentSample .. bufferSize - 1
      /\ currentSample' = 0 => currentSample = 0
  BY DEF BoundsInv, BufferTypes
<1>5. Heard(currentAudioBuffer, LS[1], currentSample)'
  BY <1>1, <1>4 DEF Heard, Run
<1>6. QED
  BY <1>3, <1>5

\* The steps that take no samples of a frame.
LEMMA OtherStepsMove ==
  ASSUME BoundsInv, ParseFrames, ~Takings
  PROVE  /\ currentSample' \in Nat /\ currentSample' >= currentSample
         /\ \/ offsetIntoFrame' = 0
            \/ HandlePayload /\ currentSample' = currentSample
            \/ ShuffleFrame /\ currentSample' = currentSample
            \/ UNCHANGED frameVars /\ currentSample' = currentSample
<1>1. /\ currentSample \in Nat /\ bufferSize \in Nat /\ currentSample <= bufferSize
      /\ lookingForSyncMarker => offsetIntoFrame = 0
  BY DEF BoundsInv, BufferTypes, SearchInv
<1>2. CASE Resets
  <2>1. offsetIntoFrame' = 0
    BY <1>2, ResetsReset DEF ResetFrame
  <2>2. currentSample' = currentSample \/ currentSample' = currentSample + 1
    BY <1>2 DEF Resets, FindMarkerWithoutTail, MissTail, RejectPayload, HandleFrame, RejectFrame, Checks
  <2>3. QED
    BY <1>1, <2>1, <2>2
<1>3. CASE SkipSilence
  <2>1. SamplesToTest \in Nat
    BY <1>1, PayloadIs DEF SamplesToTest
  <2>2. QED
    BY <1>1, <1>3, <2>1 DEF SkipSilence, frameVars
<1>4. CASE SkipSample
  BY <1>1, <1>4 DEF SkipSample, frameVars
<1>5. CASE HandlePayload
  BY <1>1, <1>5 DEF HandlePayload, Checks
<1>6. CASE ShuffleFrame
  BY <1>1, <1>6 DEF ShuffleFrame, Checks
<1>7. CASE Continue
  BY <1>1, <1>7 DEF Continue, Checks
<1>8. QED
  BY <1>2, <1>3, <1>4, <1>5, <1>6, <1>7 DEF ParseFrames, Resets, Takings

\* A frame of another duration keeps the payload.
LEMMA PayloadPlaces ==
  ASSUME FramesHaveFill,
         BoundsInv, DurationsAreSent, HandlePayload, UNCHANGED currentSample, UNCHANGED bufferVars,
         NEW LF, NEW LB, InFrame(LF, LB)
  PROVE  InFrame(LF, LB)'
<1> DEFINE duration == ReadSyncPacket(frame).editUnitDuration
<1>1. offsetIntoFrame = payloadDuration /\ offsetIntoFrame' = payloadDuration
  BY DEF HandlePayload
<1>2. payloadDuration \in Nat /\ payloadDuration > 40
  BY PayloadIs
<1>3. duration \in Nat /\ duration > payloadDuration
  <2>1. duration \in {p.editUnitDuration : p \in Sent}
    BY DEF HandlePayload, Checks, DurationsAreSent
  <2>2. QED
    BY <2>1, DurationIs, FillIs
<1>4. \A i \in 0 .. payloadDuration - 1 : frame'[i] = frame[i]
  <2>1. frame' = IF duration = currentFrameDuration THEN frame
                 ELSE [i \in 0 .. duration - 1 |-> IF i < payloadDuration THEN frame[i] ELSE Garbage]
    BY DEF HandlePayload
  <2> HIDE DEF duration
  <2>2. QED
    BY <1>2, <1>3, <2>1
<1>5. Run(frame, LF, 0, offsetIntoFrame)'
  <2>1. \A i \in 0 .. payloadDuration - 1 : i # 0 => i - 1 \in 0 .. payloadDuration - 1
    BY <1>2
  <2>2. QED
    BY <1>1, <1>4, <2>1 DEF InFrame, Run
<1>6. Joined(LF, LB)'
  <2>1. payloadDuration - 1 \in 0 .. payloadDuration - 1
    BY <1>2
  <2>2. frame'[payloadDuration - 1] = frame[payloadDuration - 1]
    BY <1>4, <2>1
  <2>3. QED
    BY <1>1, <2>2 DEF InFrame, Joined, bufferVars
<1>7. QED
  BY <1>5, <1>6 DEF InFrame

\* The places of the frame are shuffled with it.
LEMMA ShufflePlaces ==
  ASSUME BoundsInv, ShuffleFrame, UNCHANGED currentSample, UNCHANGED bufferVars,
         NEW LF, NEW LB, InFrame(LF, LB)
  PROVE  \E MF : InFrame(MF, LB)'
<1>1. PICK d : d = currentFrameDuration
  OBVIOUS
<1>2. PICK first \in LaterMarkers :
        /\ frame' = [i \in DOMAIN frame |->
                       IF i + first < currentFrameDuration THEN frame[i + first] ELSE 0]
        /\ offsetIntoFrame' = currentFrameDuration - first
  BY DEF ShuffleFrame
<1>3. /\ d \in Nat /\ first \in 2 .. d - 1 /\ offsetIntoFrame = d /\ offsetIntoFrame' = d - first
      /\ DOMAIN frame = 0 .. d - 1
  BY <1>1, <1>2 DEF BoundsInv, FrameTypes, LaterMarkers, ShuffleFrame, FrameFull
<1>4. PICK MF : \A i \in 0 .. d - first - 1 : MF[i] = LF[i + first]
  <2>1. \A i \in 0 .. d - first - 1 : [j \in 0 .. d - first - 1 |-> LF[j + first]][i] = LF[i + first]
    OBVIOUS
  <2>2. QED
    BY <2>1
<1>5. ASSUME NEW i \in 0 .. d - first - 1
      PROVE  /\ i + first \in 0 .. d - 1 /\ i + first # 0
             /\ MF[i] = LF[i + first] /\ frame'[i] = frame[i + first]
             /\ i # 0 => i - 1 \in 0 .. d - first - 1 /\ (i - 1) + first = (i + first) - 1
  <2>1. i \in 0 .. d - 1 /\ i + first < d /\ i + first \in 0 .. d - 1 /\ i + first # 0
    BY <1>3
  <2>2. frame'[i] = frame[i + first]
    BY <1>1, <1>2, <1>3, <2>1
  <2>3. i # 0 => i - 1 \in 0 .. d - first - 1 /\ (i - 1) + first = (i + first) - 1
    BY <1>3
  <2>4. QED
    BY <1>4, <2>1, <2>2, <2>3
<1>6. \A i \in 0 .. d - 1 :
        /\ LF[i] \in Place /\ frame[i] \in {0, Value(LF[i])}
        /\ i # 0 => /\ Behind(LF[i - 1], LF[i])
                    /\ frame[i] = Value(LF[i]) \/ frame[i - 1] = Value(LF[i - 1])
  BY <1>3 DEF InFrame, Run
<1>7. ASSUME NEW i \in 0 .. d - first - 1
      PROVE  /\ MF[i] \in Place /\ frame'[i] \in {0, Value(MF[i])}
             /\ i # 0 => /\ Behind(MF[i - 1], MF[i])
                         /\ frame'[i] = Value(MF[i]) \/ frame'[i - 1] = Value(MF[i - 1])
  <2>1. MF[i] \in Place /\ frame'[i] \in {0, Value(MF[i])}
    BY <1>5, <1>6
  <2>2. ASSUME i # 0
        PROVE  /\ Behind(MF[i - 1], MF[i])
               /\ frame'[i] = Value(MF[i]) \/ frame'[i - 1] = Value(MF[i - 1])
    <3>1. i - 1 \in 0 .. d - first - 1 /\ (i - 1) + first = (i + first) - 1
      BY <1>5, <2>2
    <3>2. MF[i - 1] = LF[(i + first) - 1] /\ frame'[i - 1] = frame[(i + first) - 1]
      BY <1>5, <3>1
    <3>3. QED
      BY <1>5, <1>6, <3>2
  <2>3. QED
    BY <2>1, <2>2
<1>8. Run(frame, MF, 0, offsetIntoFrame)'
  BY <1>3, <1>7 DEF Run
<1>9. Joined(MF, LB)'
  <2>1. d - first - 1 \in 0 .. d - first - 1 /\ (d - first - 1) + first = d - 1
    BY <1>3
  <2>2. MF[d - first - 1] = LF[d - 1] /\ frame'[d - first - 1] = frame[d - 1]
    BY <1>5, <2>1
  <2>3. d > 0
    BY <1>3
  <2>4. QED
    BY <1>3, <2>2, <2>3 DEF InFrame, Joined, bufferVars
<1>10. QED
  BY <1>8, <1>9 DEF InFrame

LEMMA ParsePlaces ==
  ASSUME FramesHaveFill, BoundsInv, PlacesInv, Parse
  PROVE  HasPlaces'
<1>1. PICK LF, LS : /\ HeardAll(LS) /\ Heard(currentAudioBuffer, LS[1], currentSample)
                    /\ InFrame(LF, LS[1])
  BY DEF PlacesInv, HasPlaces
<1>2. ParseFrames /\ UNCHANGED bufferVars
  BY ParseKeepsBuffer DEF Parse, bufferVars
<1>3. CASE Takings
  <2>1. PICK n : Taken(n)
    BY <1>3, TakingsTake DEF BoundsInv
  <2>2. currentSample' \in Nat /\ currentSample' >= currentSample
    BY <2>1 DEF Taken, BoundsInv, BufferTypes
  <2>3. \E MF : InFrame(MF, LS[1])'
    BY <1>1, <1>2, <2>1, TakenPlaces DEF BoundsInv
  <2>4. QED
    BY <1>1, <2>2, <2>3, ParseLeavesTheRest DEF HasPlaces
<1>4. CASE ~Takings
  <2>1. /\ currentSample' \in Nat /\ currentSample' >= currentSample
        /\ \/ offsetIntoFrame' = 0
           \/ HandlePayload /\ currentSample' = currentSample
           \/ ShuffleFrame /\ currentSample' = currentSample
           \/ UNCHANGED frameVars /\ currentSample' = currentSample
    BY <1>2, <1>4, OtherStepsMove
  <2>2. HeardAll(LS)' /\ Heard(currentAudioBuffer, LS[1], currentSample)'
    BY <1>1, <2>1, ParseLeavesTheRest
  <2>3. \E MF : InFrame(MF, LS[1])'
    <3>1. CASE offsetIntoFrame' = 0
      BY <3>1 DEF InFrame, Run, Joined
    <3>2. CASE HandlePayload /\ currentSample' = currentSample
      BY <1>1, <1>2, <3>2, PayloadPlaces, PlacesGiveDurations
    <3>3. CASE ShuffleFrame /\ currentSample' = currentSample
      BY <1>1, <1>2, <3>3, ShufflePlaces
    <3>4. CASE UNCHANGED frameVars /\ currentSample' = currentSample
      BY <1>1, <1>2, <3>4 DEF InFrame, Run, Joined, bufferVars, frameVars
    <3>5. QED
      BY <2>1, <3>1, <3>2, <3>3, <3>4
  <2>4. QED
    BY <2>2, <2>3 DEF HasPlaces
<1>5. QED
  BY <1>3, <1>4

LEMMA StepPlaces ==
  ASSUME FramesHaveFill, ~Splices, 0 \notin DropoutsAt, BoundsInv, PlacesInv, [Next]_vars
  PROVE  PlacesInv'
<1>1. CASE Next /\ ~Undefined
  <2>1. LineInv'
    BY <1>1, LineSteps DEF PlacesInv
  <2>2. HasPlaces'
    BY <1>1, LinePlaces, PopPlaces, RecyclePlaces, ParsePlaces DEF Next
  <2>3. QED
    BY <2>1, <2>2 DEF PlacesInv
<1>2. CASE UNCHANGED vars
  <2>1. /\ UNCHANGED vvars /\ bufferSize' = bufferSize /\ Pending' = Pending /\ popped' = popped
        /\ packet' = packet /\ at' = at /\ silent' = silent
    BY <1>2 DEF vars, vvars, bufferVars, lineVars, Pending
  <2>2. LineInv'
    BY <2>1 DEF PlacesInv, LineInv
  <2>3. PICK LF, LS : /\ HeardAll(LS) /\ Heard(currentAudioBuffer, LS[1], currentSample)
                      /\ InFrame(LF, LS[1])
    BY DEF PlacesInv, HasPlaces
  <2>4. HeardAll(LS)'
    BY <2>1, <2>3 DEF HeardAll, Heard, Run, PlacesOfBuffer
  <2>5. HasPlaces'
    BY <2>1, <2>3, <2>4, ParserStays
  <2>6. QED
    BY <2>2, <2>5 DEF PlacesInv
<1>3. QED
  BY <1>1, <1>2 DEF Undefined

-----------------------------------------------------------------------------
(* Without splices, and with dropouts inside a buffer only.                *)

LEMMA PlacesStay ==
  Spec /\ FramesHaveFill /\ ~Splices /\ 0 \notin DropoutsAt => [](BoundsInv /\ PlacesInv)
<1> SUFFICES ASSUME FramesHaveFill, ~Splices, 0 \notin DropoutsAt PROVE Spec => [](BoundsInv /\ PlacesInv)
  OBVIOUS
<1>1. ClientInit => BoundsInv /\ PlacesInv
  BY InitBounds, InitPlaces
<1>2. BoundsInv /\ PlacesInv /\ [Next]_vars => (BoundsInv /\ PlacesInv)'
  BY StepBounds, StepPlaces, PlacesGiveDurations
<1>3. QED
  BY <1>1, <1>2, PTL DEF Spec

\* The duration of a packet that the validator accepts is that of one that was sent, however
\* the buffers, the losses, the silences and the dropouts cut the frames: ValidateSyncMarkers
\* lets no second marker or tail into a payload, and the words in between are those of its
\* own packet or zero.
THEOREM DurationsStaySent ==
  Spec /\ FramesHaveFill /\ ~Splices /\ 0 \notin DropoutsAt => []DurationsAreSent
<1>1. BoundsInv /\ PlacesInv => DurationsAreSent
  BY PlacesGiveDurations
<1>2. QED
  BY <1>1, PlacesStay, PTL

\* So nothing is copied out of bounds where every frame has samples behind its payload: the
\* memory that HandlePayload allocates for the accepted duration holds the frame.
THEOREM NothingIsCopiedOutOfBounds ==
  Spec /\ FramesHaveFill /\ ~Splices /\ 0 \notin DropoutsAt => [](OffsetsInBounds /\ ~Overrun)
<1>1. QED
  BY DurationsStaySent, OffsetsStayInBounds, PTL

\* And ProcessSyncMarker says within the limit and a frame that the signal is gone.
THEOREM NoSignalIsNoticed ==
  Spec /\ FramesHaveFill /\ ~Splices /\ 0 \notin DropoutsAt => []SilenceIsNoticed
<1>1. QED
  BY DurationsStaySent, SilenceGetsNoticed, PTL

-----------------------------------------------------------------------------
(* Reading what was written.                                               *)

\* The payload in f is that of packet p.
PayloadOf(p, f) == \A k \in 0 .. payloadDuration - 1 : f[k] = SampleAt(p, k)

LEMMA ReadWord ==
  ASSUME NEW p \in Sent, NEW f, PayloadOf(p, f), NEW w \in 0 .. PayloadWords - 1,
         NEW s, s = WriteSyncPacket(p)
  PROVE  /\ f[4 + 2 * w] = s[5 + 2 * w] /\ f[5 + 2 * w] = -s[5 + 2 * w]
         /\ s[5 + 2 * w] \in Words /\ ReadUInt16(f, w) = s[5 + 2 * w]
<1>1. UUIDWords \in Nat /\ PayloadWords = 18 + 3 * UUIDWords /\ payloadDuration = 40 + 6 * UUIDWords
  BY SyncPacketAssumption, PayloadIs DEF PayloadWords
<1>2. /\ w + 3 \in 2 .. 20 + 3 * UUIDWords /\ 2 * (w + 3) - 1 = 5 + 2 * w /\ 2 * (w + 3) = 6 + 2 * w
      /\ 4 + 2 * w \in 0 .. payloadDuration - 1 /\ (4 + 2 * w) + 1 = 5 + 2 * w
      /\ 5 + 2 * w \in 0 .. payloadDuration - 1 /\ (5 + 2 * w) + 1 = 6 + 2 * w
      /\ w \in Nat
  BY <1>1
<1>3. s[5 + 2 * w] \in Words /\ s[6 + 2 * w] = -s[5 + 2 * w]
  <2>1. Packed(s, 20 + 3 * UUIDWords)
    BY PacketHas
  <2>2. QED
    BY <1>2, <2>1 DEF Packed
<1>4. \A k \in 0 .. payloadDuration - 1 : f[k] = s[k + 1]
  <2>1. Written[p] = s
    BY DEF Written
  <2>2. QED
    BY <1>1, <2>1 DEF PayloadOf, SampleAt
<1>5. f[4 + 2 * w] = s[5 + 2 * w] /\ f[5 + 2 * w] = s[6 + 2 * w]
  BY <1>2, <1>4
<1>6. \A m \in Nat \ {0} : \A v \in 0 .. m - 1 : v % m = v
  OBVIOUS
<1>7. s[5 + 2 * w] % Word = s[5 + 2 * w]
  BY <1>3, <1>6, WordIs DEF Words
<1>8. QED
  BY <1>3, <1>5, <1>7 DEF ReadUInt16

LEMMA HasAtIs ==
  ASSUME NEW s, NEW c \in Seq(Int), NEW i \in Nat, HasAt(s, i, c), NEW k \in Nat, k < Len(c)
  PROVE  s[i + k] = c[k + 1]
<1>1. k + 1 \in 1 .. Len(c) /\ i + (k + 1) - 1 = i + k
  BY Zenon, SMT
<1>2. QED
  BY <1>1 DEF HasAt

LEMMA Read32 ==
  ASSUME NEW p \in Sent, NEW f, PayloadOf(p, f), NEW w \in 0 .. PayloadWords - 2,
         NEW v \in UInt32, HasAt(WriteSyncPacket(p), 5 + 2 * w, WriteUInt32(v))
  PROVE  ReadUInt32(f, w) = v
<1> DEFINE s == WriteSyncPacket(p)
           c == WriteUInt32(v)
<1>1. /\ w \in 0 .. PayloadWords - 1 /\ w + 1 \in 0 .. PayloadWords - 1 /\ 5 + 2 * w \in Nat
      /\ 5 + 2 * (w + 1) = 5 + 2 * w + 2
  BY SyncPacketAssumption DEF PayloadWords
<1>2. c \in Seq(Int) /\ Len(c) = 4 /\ c[1] = v \div Word /\ c[3] = v % Word
      /\ (v \div Word) * Word + (v % Word) = v
  BY Written32 DEF Paired
<1>3. HasAt(s, 5 + 2 * w, c)
  OBVIOUS
<1>4. ReadUInt16(f, w) = s[5 + 2 * w] /\ ReadUInt16(f, w + 1) = s[5 + 2 * (w + 1)]
  BY <1>1, ReadWord
<1> HIDE DEF s, c
<1>5. s[5 + 2 * w + 0] = c[0 + 1] /\ s[5 + 2 * w + 2] = c[2 + 1]
  <2> DEFINE i == 5 + 2 * w
  <2>1. i \in Nat /\ HasAt(s, i, c)
    BY <1>1, <1>3
  <2> HIDE DEF i
  <2>2. \A k \in Nat : k < 4 => s[i + k] = c[k + 1]
    BY <1>2, <2>1, HasAtIs
  <2>3. s[i + 0] = c[0 + 1] /\ s[i + 2] = c[2 + 1]
    BY <2>2
  <2>4. QED
    BY <2>3 DEF i
<1>6. 5 + 2 * w + 0 = 5 + 2 * w /\ 0 + 1 = 1 /\ 2 + 1 = 3
  BY <1>1
<1>7. ReadUInt16(f, w) = v \div Word /\ ReadUInt16(f, w + 1) = v % Word
  BY <1>1, <1>2, <1>4, <1>5, <1>6
<1>8. QED
  BY <1>2, <1>7 DEF ReadUInt32

LEMMA ReadSigned ==
  ASSUME NEW p \in Sent, NEW f, PayloadOf(p, f), NEW w \in 0 .. PayloadWords - 2,
         NEW v \in Int32, HasAt(WriteSyncPacket(p), 5 + 2 * w, WriteInt32(v))
  PROVE  ReadInt32(f, w) = v
<1> DEFINE u == v % (Word * Word)
<1>1. u \in UInt32 /\ v = IF u \in Int32 THEN u ELSE u - Word * Word
  BY WrittenSigned
<1>2. HasAt(WriteSyncPacket(p), 5 + 2 * w, WriteUInt32(u))
  BY DEF WriteInt32
<1> HIDE DEF u
<1>3. ReadUInt32(f, w) = u
  BY <1>1, <1>2, Read32
<1>4. QED
  BY <1>1, <1>3, Zenon DEF ReadInt32

LEMMA ReadIdentifier ==
  ASSUME NEW p \in Sent, NEW f, PayloadOf(p, f), NEW w \in 0 .. PayloadWords - UUIDWords,
         NEW uuid \in UUID, HasAt(WriteSyncPacket(p), 5 + 2 * w, WriteUUID(uuid))
  PROVE  ReadUUID(f, w) = BytesSwapped(uuid)
<1>1. UUIDWords \in Nat /\ Byte \in Nat \ {0, 1} /\ PayloadWords \in Nat
  BY SyncPacketAssumption DEF PayloadWords
<1>2. ASSUME NEW j \in 1 .. UUIDWords
      PROVE  ReadUInt16(f, w + (j - 1)) = WordOf(uuid, j)
  <2> DEFINE s == WriteSyncPacket(p)
             c == WriteUUID(uuid)
             i == 5 + 2 * w
             k == 2 * (j - 1)
  <2>1. w + (j - 1) \in 0 .. PayloadWords - 1 /\ 5 + 2 * (w + (j - 1)) = i + k
    BY <1>1
  <2>2. ReadUInt16(f, w + (j - 1)) = s[i + k]
    BY <2>1, ReadWord
  <2>3. c \in Seq(Int) /\ Len(c) = 2 * UUIDWords /\ c[2 * j - 1] = WordOf(uuid, j)
    BY WrittenUUID DEF Paired
  <2>4. i \in Nat /\ k \in Nat /\ k < 2 * UUIDWords /\ k + 1 = 2 * j - 1
    BY <1>1
  <2>5. HasAt(s, i, c)
    OBVIOUS
  <2> HIDE DEF s, c, i, k
  <2>6. s[i + k] = c[k + 1]
    BY <2>3, <2>4, <2>5, HasAtIs
  <2>7. QED
    BY <2>2, <2>3, <2>4, <2>6
<1>3. uuid \in [1 .. 2 * UUIDWords -> 0 .. Byte - 1]
  BY DEF UUID
<1>4. ASSUME NEW i \in 1 .. 2 * UUIDWords
      PROVE  (LET word == ReadUInt16(f, w + (i - 1) \div 2)
              IN  IF i % 2 = 1 THEN word % Byte ELSE word \div Byte)
               = uuid[IF i % 2 = 1 THEN i + 1 ELSE i - 1]
  <2> DEFINE j == (i - 1) \div 2 + 1
  <2>1. j \in 1 .. UUIDWords /\ (i - 1) \div 2 = j - 1
        /\ (i % 2 = 1 => i = 2 * j - 1) /\ (i % 2 # 1 => i = 2 * j)
    <3>1. \A h \in Nat \ {0} :
                     /\ (h - 1) \div 2 + 1 \in Nat \ {0}
                     /\ (h - 1) \div 2 \in Int
                     /\ h % 2 = 1 => h = 2 * ((h - 1) \div 2 + 1) - 1
                     /\ h % 2 # 1 => h = 2 * ((h - 1) \div 2 + 1)
      OBVIOUS
    <3>2. i \in Nat \ {0} /\ i <= 2 * UUIDWords
      BY <1>1
    <3>3. /\ j \in Nat \ {0} /\ (i - 1) \div 2 \in Int
          /\ (i % 2 = 1 => i = 2 * j - 1) /\ (i % 2 # 1 => i = 2 * j)
      BY <3>1, <3>2
    <3>4. (i - 1) \div 2 = j - 1
      BY <3>3
    <3> HIDE DEF j
    <3>5. j <= UUIDWords
      BY <1>1, <3>2, <3>3
    <3>6. QED
      BY <1>1, <3>3, <3>4, <3>5
  <2> HIDE DEF j
  <2>2. ReadUInt16(f, w + (i - 1) \div 2) = uuid[2 * j - 1] * Byte + uuid[2 * j]
    BY <1>2, <2>1 DEF WordOf
  <2>3. uuid[2 * j - 1] \in 0 .. Byte - 1 /\ uuid[2 * j] \in 0 .. Byte - 1
    <3>1. 2 * j - 1 \in 1 .. 2 * UUIDWords /\ 2 * j \in 1 .. 2 * UUIDWords
      BY <1>1, <2>1
    <3>2. QED
      BY <1>3, <3>1
  <2>4. /\ (uuid[2 * j - 1] * Byte + uuid[2 * j]) % Byte = uuid[2 * j]
        /\ (uuid[2 * j - 1] * Byte + uuid[2 * j]) \div Byte = uuid[2 * j - 1]
    BY <2>1, WrittenUUID DEF WordOf
  <2>5. 2 * j - 1 + 1 = 2 * j
    BY <2>1
  <2>6. CASE i % 2 = 1
    BY <2>1, <2>2, <2>4, <2>5, <2>6
  <2>7. CASE i % 2 # 1
    BY <2>1, <2>2, <2>4, <2>7
  <2>8. QED
    BY <2>6, <2>7
<1>5. DOMAIN uuid = 1 .. 2 * UUIDWords
  BY <1>3
<1>6. QED
  BY <1>4, <1>5 DEF ReadUUID, BytesSwapped

\* What is read of the samples of a packet is the packet, its UUIDs' bytes swapped in pairs.
THEOREM ReadAsWritten ==
  ASSUME NEW p \in Sent, NEW f, PayloadOf(p, f)
  PROVE  ReadSyncPacket(f) = AsRead(p)
<1>1. p \in SyncPackets
  BY SEClientAssumption
<1>2. UUIDWords \in Nat \ {0} /\ PayloadWords = 18 + 3 * UUIDWords /\ UInt16 = Words
  BY SyncPacketAssumption DEF PayloadWords, Words, UInt16
<1>3. /\ p.flags \in UInt16 /\ p.timelineEditUnitIndex \in UInt32 /\ p.playoutID \in UInt32
      /\ p.editUnitDuration \in UInt16 /\ p.sampleDurationEnum \in UInt32
      /\ p.sampleDurationDenom \in UInt32 /\ p.primaryPictureOutputOffset \in Int32
      /\ p.primaryPictureScreenOffset \in UInt32 /\ p.primaryPictureTrackFileEditUnitIndex \in UInt32
      /\ p.primarySoundTrackFileEditUnitIndex \in UInt32
      /\ p.primaryPictureTrackFileUUID \in UUID /\ p.primarySoundTrackFileUUID \in UUID
      /\ p.compositionPlaylistUUID \in UUID
  BY <1>1 DEF SyncPackets
<1> DEFINE s == WriteSyncPacket(p)
<1>4. ASSUME NEW w \in 0 .. PayloadWords - 1, NEW v \in UInt16, HasAt(s, 5 + 2 * w, WriteUInt16(v))
      PROVE  ReadUInt16(f, w) = v
  <2>1. Pair(v) \in Seq(Int) /\ Len(Pair(v)) = 2 /\ Pair(v)[1] = v
    BY <1>2, PairIs
  <2>2. 5 + 2 * w \in Nat
    BY <1>2
  <2>3. s[5 + 2 * w + 0] = Pair(v)[0 + 1]
    <3> DEFINE i == 5 + 2 * w
               c == Pair(v)
    <3>1. i \in Nat /\ c \in Seq(Int) /\ Len(c) = 2 /\ HasAt(s, i, c)
      BY <1>4, <2>1, <2>2 DEF WriteUInt16
    <3> HIDE DEF i, c, s
    <3>2. s[i + 0] = c[0 + 1]
      BY <3>1, HasAtIs
    <3>3. QED
      BY <3>2 DEF i, c
  <2>4. 5 + 2 * w + 0 = 5 + 2 * w /\ 0 + 1 = 1
    BY <2>2
  <2>5. ReadUInt16(f, w) = s[5 + 2 * w]
    BY ReadWord
  <2>6. QED
    BY <2>1, <2>3, <2>4, <2>5
<1>5. ReadUInt16(f, 0) = p.flags /\ ReadUInt16(f, 5) = p.editUnitDuration
  <2>1. HasAt(s, 5, WriteUInt16(p.flags)) /\ HasAt(s, 15, WriteUInt16(p.editUnitDuration))
    BY PacketHas
  <2>2. 0 \in 0 .. PayloadWords - 1 /\ 5 \in 0 .. PayloadWords - 1 /\ 5 + 2 * 0 = 5 /\ 5 + 2 * 5 = 15
    BY <1>2
  <2> HIDE DEF s
  <2>3. QED
    BY <1>3, <1>4, <2>1, <2>2
<1>6. ASSUME NEW w \in 0 .. PayloadWords - 2, NEW i, i = 5 + 2 * w, NEW v \in UInt32,
             HasAt(s, i, WriteUInt32(v))
      PROVE  ReadUInt32(f, w) = v
  BY <1>6, Read32
<1>7. ReadUInt32(f, 1) = p.timelineEditUnitIndex /\ ReadUInt32(f, 3) = p.playoutID
  <2>1. HasAt(s, 7, WriteUInt32(p.timelineEditUnitIndex)) /\ HasAt(s, 11, WriteUInt32(p.playoutID))
    BY PacketHas
  <2>2. 1 \in 0 .. PayloadWords - 2 /\ 3 \in 0 .. PayloadWords - 2 /\ 7 = 5 + 2 * 1 /\ 11 = 5 + 2 * 3
    BY <1>2
  <2> HIDE DEF s
  <2>3. QED
    BY <1>3, <1>6, <2>1, <2>2
<1>8. ReadUInt32(f, 6) = p.sampleDurationEnum /\ ReadUInt32(f, 8) = p.sampleDurationDenom
  <2>1. HasAt(s, 17, WriteUInt32(p.sampleDurationEnum)) /\ HasAt(s, 21, WriteUInt32(p.sampleDurationDenom))
    BY PacketHas
  <2>2. 6 \in 0 .. PayloadWords - 2 /\ 8 \in 0 .. PayloadWords - 2 /\ 17 = 5 + 2 * 6 /\ 21 = 5 + 2 * 8
    BY <1>2
  <2> HIDE DEF s
  <2>3. QED
    BY <1>3, <1>6, <2>1, <2>2
<1>9. /\ ReadUInt32(f, 12) = p.primaryPictureScreenOffset
      /\ ReadUInt32(f, 14) = p.primaryPictureTrackFileEditUnitIndex
  <2>1. /\ HasAt(s, 29, WriteUInt32(p.primaryPictureScreenOffset))
        /\ HasAt(s, 33, WriteUInt32(p.primaryPictureTrackFileEditUnitIndex))
    BY PacketHas
  <2>2. 12 \in 0 .. PayloadWords - 2 /\ 14 \in 0 .. PayloadWords - 2 /\ 29 = 5 + 2 * 12 /\ 33 = 5 + 2 * 14
    BY <1>2
  <2> HIDE DEF s
  <2>3. QED
    BY <1>3, <1>6, <2>1, <2>2
<1>10. ReadUInt32(f, 16 + UUIDWords) = p.primarySoundTrackFileEditUnitIndex
  <2>1. HasAt(s, 37 + 2 * UUIDWords, WriteUInt32(p.primarySoundTrackFileEditUnitIndex))
    BY PacketHas
  <2>2. 16 + UUIDWords \in 0 .. PayloadWords - 2 /\ 37 + 2 * UUIDWords = 5 + 2 * (16 + UUIDWords)
    BY <1>2
  <2> HIDE DEF s
  <2>3. QED
    BY <1>3, <1>6, <2>1, <2>2
<1>11. ReadInt32(f, 10) = p.primaryPictureOutputOffset
  <2>1. HasAt(s, 25, WriteInt32(p.primaryPictureOutputOffset))
    BY PacketHas
  <2>2. 10 \in 0 .. PayloadWords - 2 /\ 25 = 5 + 2 * 10
    BY <1>2
  <2>3. QED
    BY <1>3, <2>1, <2>2, ReadSigned
<1>12. ASSUME NEW w \in 0 .. PayloadWords - UUIDWords, NEW i, i = 5 + 2 * w, NEW v \in UUID,
              HasAt(s, i, WriteUUID(v))
       PROVE  ReadUUID(f, w) = BytesSwapped(v)
  BY <1>12, ReadIdentifier
<1>13. ReadUUID(f, 16) = BytesSwapped(p.primaryPictureTrackFileUUID)
  <2>1. HasAt(s, 37, WriteUUID(p.primaryPictureTrackFileUUID))
    BY PacketHas
  <2>2. 16 \in 0 .. PayloadWords - UUIDWords /\ 37 = 5 + 2 * 16
    BY <1>2
  <2> HIDE DEF s
  <2>3. QED
    BY <1>3, <1>12, <2>1, <2>2
<1>14. ReadUUID(f, 18 + UUIDWords) = BytesSwapped(p.primarySoundTrackFileUUID)
  <2>1. HasAt(s, 41 + 2 * UUIDWords, WriteUUID(p.primarySoundTrackFileUUID))
    BY PacketHas
  <2>2. 18 + UUIDWords \in 0 .. PayloadWords - UUIDWords /\ 41 + 2 * UUIDWords = 5 + 2 * (18 + UUIDWords)
    BY <1>2
  <2> HIDE DEF s
  <2>3. QED
    BY <1>3, <1>12, <2>1, <2>2
<1>15. ReadUUID(f, 18 + 2 * UUIDWords) = BytesSwapped(p.compositionPlaylistUUID)
  <2>1. HasAt(s, 41 + 4 * UUIDWords, WriteUUID(p.compositionPlaylistUUID))
    BY PacketHas
  <2>2. /\ 18 + 2 * UUIDWords \in 0 .. PayloadWords - UUIDWords
        /\ 41 + 4 * UUIDWords = 5 + 2 * (18 + 2 * UUIDWords)
    BY <1>2
  <2> HIDE DEF s
  <2>3. QED
    BY <1>3, <1>12, <2>1, <2>2
<1> DEFINE r == [flags |-> p.flags, timelineEditUnitIndex |-> p.timelineEditUnitIndex,
                 playoutID |-> p.playoutID, editUnitDuration |-> p.editUnitDuration,
                 sampleDurationEnum |-> p.sampleDurationEnum,
                 sampleDurationDenom |-> p.sampleDurationDenom,
                 primaryPictureOutputOffset |-> p.primaryPictureOutputOffset,
                 primaryPictureScreenOffset |-> p.primaryPictureScreenOffset,
                 primaryPictureTrackFileEditUnitIndex |-> p.primaryPictureTrackFileEditUnitIndex,
                 primaryPictureTrackFileUUID |-> BytesSwapped(p.primaryPictureTrackFileUUID),
                 primarySoundTrackFileEditUnitIndex |-> p.primarySoundTrackFileEditUnitIndex,
                 primarySoundTrackFileUUID |-> BytesSwapped(p.primarySoundTrackFileUUID),
                 compositionPlaylistUUID |-> BytesSwapped(p.compositionPlaylistUUID)]
<1>16. AsRead(p) = r
  <2>1. DOMAIN p = {"flags", "timelineEditUnitIndex", "playoutID", "editUnitDuration",
                    "sampleDurationEnum", "sampleDurationDenom", "primaryPictureOutputOffset",
                    "primaryPictureScreenOffset", "primaryPictureTrackFileEditUnitIndex",
                    "primaryPictureTrackFileUUID", "primarySoundTrackFileEditUnitIndex",
                    "primarySoundTrackFileUUID", "compositionPlaylistUUID"}
    BY <1>1 DEF SyncPackets
  <2>2. AsRead(p) = [m \in DOMAIN p |-> AsRead(p)[m]]
    BY Zenon DEF AsRead
  <2>3. r = [m \in DOMAIN r |-> r[m]] /\ DOMAIN r = DOMAIN p
    BY <2>1
  <2>4. ASSUME NEW m \in DOMAIN p
        PROVE  AsRead(p)[m] = r[m]
    <3>1. AsRead(p)[m] = CASE m = "primaryPictureTrackFileUUID" -> BytesSwapped(p.primaryPictureTrackFileUUID)
                           [] m = "primarySoundTrackFileUUID" -> BytesSwapped(p.primarySoundTrackFileUUID)
                           [] m = "compositionPlaylistUUID" -> BytesSwapped(p.compositionPlaylistUUID)
                           [] OTHER -> p[m]
      BY <2>1 DEF AsRead
    <3>2. r[m] = CASE m = "primaryPictureTrackFileUUID" -> BytesSwapped(p.primaryPictureTrackFileUUID)
                           [] m = "primarySoundTrackFileUUID" -> BytesSwapped(p.primarySoundTrackFileUUID)
                           [] m = "compositionPlaylistUUID" -> BytesSwapped(p.compositionPlaylistUUID)
                           [] OTHER -> p[m]
      BY <2>1
    <3>3. QED
      BY <3>1, <3>2
  <2> HIDE DEF r
  <2>5. QED
    BY <2>2, <2>3, <2>4, Zenon
<1>17. QED
  BY <1>5, <1>7, <1>8, <1>9, <1>10, <1>11, <1>13, <1>14, <1>15, <1>16, Zenon DEF ReadSyncPacket

\* Such a payload is valid, and no word in it is a marker or a tail.
LEMMA PayloadIsValid ==
  ASSUME NEW p \in Sent, PayloadOf(p, frame), FrameTypes
  PROVE  ValidatePayload /\ frame[2] = PayloadWords
<1>1. UUIDWords \in Nat \ {0} /\ PayloadWords = 18 + 3 * UUIDWords /\ payloadDuration = 40 + 6 * UUIDWords
      /\ currentFrameDuration \in Nat /\ currentFrameDuration > payloadDuration
  BY SyncPacketAssumption, PayloadIs DEF PayloadWords, FrameTypes
<1> DEFINE s == WriteSyncPacket(p)
<1>2. \A k \in 0 .. payloadDuration - 1 : frame[k] = s[k + 1]
  <2>1. Written[p] = s
    BY DEF Written
  <2>2. QED
    BY <1>1, <2>1 DEF PayloadOf, SampleAt
<1>3. Packed(s, 20 + 3 * UUIDWords) /\ HasAt(s, 3, WriteUInt16(PayloadWords))
  BY PacketHas
<1> HIDE DEF s
\* The samples behind the marker and its tail, by pairs.
<1>4. ASSUME NEW j \in 2 .. 20 + 3 * UUIDWords
      PROVE  frame[2 * j - 2] \in Words /\ frame[2 * j - 1] = -frame[2 * j - 2]
  <2>1. /\ 2 * j - 2 \in 0 .. payloadDuration - 1 /\ 2 * j - 1 \in 0 .. payloadDuration - 1
        /\ (2 * j - 2) + 1 = 2 * j - 1 /\ (2 * j - 1) + 1 = 2 * j
    BY <1>1
  <2>2. s[2 * j - 1] \in Words /\ s[2 * j] = -s[2 * j - 1]
    BY <1>3 DEF Packed
  <2>3. QED
    BY <1>2, <2>1, <2>2
<1>5. frame[0] = SyncMarker /\ frame[1] = -SyncMarker
  <2>1. 0 \in 0 .. payloadDuration - 1 /\ 1 \in 0 .. payloadDuration - 1 /\ 0 + 1 = 1 /\ 1 + 1 = 2
    BY <1>1
  <2>2. QED
    BY <1>2, <1>3, <2>1 DEF Packed
<1>6. ASSUME NEW k \in Nat
      PROVE  \E j \in Nat : (k = 2 * j \/ k = 2 * j + 1) /\ (k % 2 = 0 => k = 2 * j)
  <2>1. k \div 2 \in Nat /\ (k = 2 * (k \div 2) \/ k = 2 * (k \div 2) + 1) /\ (k % 2 = 0 => k = 2 * (k \div 2))
    OBVIOUS
  <2>2. QED
    BY <2>1
<1>7. ASSUME NEW i \in 2 .. payloadDuration - 1
      PROVE  ~IsMarker(frame[i]) /\ ~IsTail(frame[i])
  <2>7. i \in Nat /\ i >= 2 /\ i < payloadDuration
    BY <1>1
  <2>1. PICK h \in Nat : i = 2 * h \/ i = 2 * h + 1
    BY <1>6, <2>7, Zenon
  <2> DEFINE j == h + 1
  <2>2. j \in 2 .. 20 + 3 * UUIDWords /\ (i = 2 * j - 2 \/ i = 2 * j - 1)
    BY <1>1, <2>1, <2>7
  <2> HIDE DEF j
  <2>3. frame[i] \in Words \/ \E v \in Words : frame[i] = -v
    BY <1>4, <2>2
  <2>4. \A w \in Nat \ {0}, m \in Nat : \A v \in 0 .. w - 1 :
          v # w + m /\ v # -(w + m) /\ -v # w + m /\ -v # -(w + m)
    OBVIOUS
  <2>5. \A v \in Words : /\ v # SyncMarker /\ v # -SyncMarker
                         /\ -v # SyncMarker /\ -v # -SyncMarker
    BY <2>4, WordIs, MarkerIs DEF Words
  <2>6. QED
    BY <2>3, <2>5 DEF IsMarker, IsTail
<1>8. ValidateSyncMarkers
  BY <1>5, <1>7 DEF ValidateSyncMarkers, CheckSyncMarker, IsMarker, IsTail
<1>9. frame[2] = PayloadWords
  <2>1. \A x, y : <<x, y>>[1] = x /\ Len(<<x, y>>) = 2
    OBVIOUS
  <2>2. 1 \in 1 .. Len(WriteUInt16(PayloadWords)) /\ WriteUInt16(PayloadWords)[1] = PayloadWords
    BY <2>1 DEF WriteUInt16, Pair
  <2>3. 3 + 1 - 1 = 3 /\ 2 \in 0 .. payloadDuration - 1 /\ 2 + 1 = 3
    BY <1>1
  <2>4. s[3 + 1 - 1] = WriteUInt16(PayloadWords)[1]
    BY <1>3, <2>2 DEF HasAt
  <2>5. QED
    BY <1>2, <2>2, <2>3, <2>4
<1>10. ASSUME NEW i \in CheckedPairs(frame[2])
       PROVE  ValidateLeadAndTailStructures(i)
  <2>1. i \in Nat /\ i % 2 = 0 /\ i >= 4 /\ i <= 35 + 6 * UUIDWords
    BY <1>1, <1>9 DEF CheckedPairs
  <2>2. PICK h \in Nat : i = 2 * h
    BY <1>6, <2>1
  <2> DEFINE j == h + 1
  <2>3. j \in 2 .. 20 + 3 * UUIDWords /\ i = 2 * j - 2 /\ i + 1 = 2 * j - 1
    BY <1>1, <2>1, <2>2
  <2> HIDE DEF j
  <2>4. frame[i + 1] = -frame[i]
    BY <1>4, <2>3
  <2>5. i + 2 < currentFrameDuration
    BY <1>1, <2>1
  <2>6. QED
    BY <2>4, <2>5 DEF ValidateLeadAndTailStructures
<1>11. frame[2] \in 0 .. payloadDuration - 2 * 2 * 3
  BY <1>1, <1>9
<1>12. QED
  BY <1>8, <1>9, <1>10, <1>11 DEF ValidatePayload

-----------------------------------------------------------------------------
(* Following the signal.                                                   *)
(*                                                                         *)
(* Of a frame that has come whole so far, the parser holds what it has     *)
(* been given of it, at the end of its frame or, behind a whole frame, as  *)
(* all of it.                                                              *)

\* No frame with room for another payload behind its own is longer than another one:
\* if it were, its payload's check could come to be left out for what begins in it.
FewLengths ==
  \A p, q \in Sent : p.editUnitDuration > q.editUnitDuration =>
                       p.editUnitDuration < 2 * payloadDuration

\* The payload has been checked.
Checked == offsetIntoFrame >= payloadDuration /\ ~(checking /\ offsetIntoFrame = payloadDuration)

\* A checked frame has the duration that its packet tells, and no other marker in its payload.
FrameValid ==
  /\ ~checking => offsetIntoFrame < currentFrameDuration
  /\ Checked => currentFrameDuration \in {p.editUnitDuration : p \in Sent}
  /\ Checked /\ currentFrameDuration < 2 * payloadDuration =>
       ValidateSyncMarkers /\ currentFrameDuration = ReadSyncPacket(frame).editUnitDuration

\* What the checks of a payload read is read the same where the payload is the same.
LEMMA SamePayload ==
  ASSUME \A i \in 0 .. payloadDuration - 1 : frame'[i] = frame[i]
  PROVE  /\ ValidateSyncMarkers <=> ValidateSyncMarkers'
         /\ ReadSyncPacket(frame).editUnitDuration = ReadSyncPacket(frame').editUnitDuration
<1>1. 0 \in 0 .. payloadDuration - 1 /\ 1 \in 0 .. payloadDuration - 1 /\ 4 + 2 * 5 \in 0 .. payloadDuration - 1
      /\ \A i \in 2 .. payloadDuration - 1 : i \in 0 .. payloadDuration - 1
  BY PayloadIs
<1>2. ValidateSyncMarkers <=> ValidateSyncMarkers'
  BY <1>1 DEF ValidateSyncMarkers, CheckSyncMarker, IsMarker, IsTail
<1>3. \A f : ReadSyncPacket(f).editUnitDuration = f[4 + 2 * 5] % Word
  BY DEF ReadSyncPacket, ReadUInt16
<1>4. QED
  BY <1>1, <1>2, <1>3

\* A payload's samples are taken to its end, and not beyond it.
LEMMA TakingsBound ==
  ASSUME BoundsInv, Takings, NEW n, Taken(n)
  PROVE  /\ ~checking /\ checking' /\ UNCHANGED bufferVars /\ UNCHANGED packetVars
         /\ event' = NoEvent /\ currentSample < bufferSize
         /\ offsetIntoFrame < payloadDuration => offsetIntoFrame + n <= payloadDuration
         /\ offsetIntoFrame = 0 => currentAudioBuffer[currentSample] = SyncMarker
<1>1. /\ bufferSize \in Nat /\ currentSample \in Nat /\ offsetIntoFrame \in Nat
      /\ payloadDuration \in Nat /\ payloadDuration > 40
      /\ n \in Nat /\ offsetIntoFrame' = offsetIntoFrame + n
      /\ (lookingForSyncMarker => offsetIntoFrame = 0) /\ (~lookingForSyncMarker => offsetIntoFrame > 0)
      /\ (~lookingForSyncMarker /\ lookingForSyncMarker2sComplement => offsetIntoFrame = 1)
  BY PayloadIs DEF BoundsInv, BufferTypes, FrameTypes, SearchInv, Taken
<1>2. /\ ~checking /\ checking' /\ UNCHANGED bufferVars /\ UNCHANGED packetVars
      /\ event' = NoEvent /\ currentSample < bufferSize
  BY DEF Takings, FindMarkerAndTail, FindMarkerAtTheEnd, FindsMarker, FindTail, TakeSamples, Takes
<1>3. offsetIntoFrame = 0 => currentAudioBuffer[currentSample] = SyncMarker
  BY <1>1 DEF Takings, FindMarkerAndTail, FindMarkerAtTheEnd, FindsMarker, FindTail, TakeSamples,
     Takes, Searching, IsMarker
<1>4. offsetIntoFrame < payloadDuration => offsetIntoFrame + n <= payloadDuration
  <2>1. CASE FindMarkerAndTail
    <3>1. offsetIntoFrame' = 1 + SamplesWithTail(currentSample + 1) /\ currentSample + 1 < bufferSize
      BY <2>1 DEF FindMarkerAndTail
    <3>2. SamplesWithTail(currentSample + 1) <= payloadDuration - 1
      BY <1>1, <3>1 DEF SamplesWithTail
    <3>3. SamplesWithTail(currentSample + 1) \in Int
      BY <1>1 DEF SamplesWithTail
    <3>4. QED
      BY <1>1, <3>1, <3>2, <3>3
  <2>2. CASE FindMarkerAtTheEnd
    BY <1>1, <2>2 DEF FindMarkerAtTheEnd
  <2>3. CASE FindTail
    <3>1. offsetIntoFrame' = offsetIntoFrame + SamplesWithTail(currentSample) /\ offsetIntoFrame = 1
      BY <1>1, <2>3 DEF FindTail, Takes
    <3>2. SamplesWithTail(currentSample) \in Int /\ SamplesWithTail(currentSample) <= payloadDuration - 1
      BY <1>1 DEF SamplesWithTail
    <3>3. QED
      BY <1>1, <3>1, <3>2
  <2>4. CASE TakeSamples
    <3> DEFINE available == bufferSize - currentSample
               m == IF available > SamplesNeeded THEN SamplesNeeded ELSE available
    <3>1. offsetIntoFrame' = offsetIntoFrame + m
      BY <2>4 DEF TakeSamples
    <3>2. offsetIntoFrame < payloadDuration => SamplesNeeded = payloadDuration - offsetIntoFrame
      BY DEF SamplesNeeded
    <3>3. offsetIntoFrame < payloadDuration => m \in Int /\ m <= payloadDuration - offsetIntoFrame
      BY <1>1, <3>2
    <3> HIDE DEF m
    <3>4. QED
      BY <1>1, <3>1, <3>3
  <2>5. QED
    BY <2>1, <2>2, <2>3, <2>4 DEF Takings
<1>5. QED
  BY <1>2, <1>3, <1>4

LEMMA ParseFrameValid ==
  ASSUME FramesHaveFill, BoundsInv, DurationsAreSent, FrameValid, ParseFrames
  PROVE  FrameValid'
<1>1. /\ currentFrameDuration \in Nat /\ currentFrameDuration > payloadDuration
      /\ offsetIntoFrame \in Nat /\ offsetIntoFrame <= currentFrameDuration
      /\ payloadDuration \in Nat /\ payloadDuration > 40
  BY PayloadIs DEF BoundsInv, FrameTypes
<1>2. CASE Takings
  <2>1. PICK n : Taken(n)
    BY <1>2, TakingsTake DEF BoundsInv
  <2>2. /\ ~checking /\ checking'
        /\ offsetIntoFrame < payloadDuration => offsetIntoFrame + n <= payloadDuration
    BY <1>2, <2>1, TakingsBound
  <2>3. /\ n \in Nat /\ offsetIntoFrame' = offsetIntoFrame + n
        /\ currentFrameDuration' = currentFrameDuration
        /\ \A i \in 0 .. currentFrameDuration - 1 : i < offsetIntoFrame => frame'[i] = frame[i]
    BY <1>1, <2>1 DEF Taken
  <2>4. ASSUME Checked'
        PROVE  Checked /\ \A i \in 0 .. payloadDuration - 1 : frame'[i] = frame[i]
    <3>1. offsetIntoFrame >= payloadDuration
      BY <1>1, <2>2, <2>3, <2>4 DEF Checked
    <3>2. QED
      BY <1>1, <2>2, <2>3, <3>1 DEF Checked
  <2>5. QED
    BY <2>2, <2>3, <2>4, SamePayload DEF FrameValid
<1>3. CASE offsetIntoFrame' = 0 /\ currentFrameDuration' = currentFrameDuration
  BY <1>1, <1>3 DEF FrameValid, Checked
<1>4. CASE HandlePayload
  <2> DEFINE duration == ReadSyncPacket(frame).editUnitDuration
  <2>1. /\ checking /\ ~checking' /\ offsetIntoFrame = payloadDuration /\ ValidatePayload
        /\ duration # 0 /\ currentFrameDuration' = duration
        /\ frame' = IF duration = currentFrameDuration THEN frame
                    ELSE [i \in 0 .. duration - 1 |->
                            IF i < payloadDuration THEN frame[i] ELSE Garbage]
        /\ UNCHANGED offsetIntoFrame
    BY <1>4 DEF HandlePayload, Checks
  <2>2. duration \in {p.editUnitDuration : p \in Sent}
    BY <2>1 DEF DurationsAreSent
  <2>3. duration \in Nat /\ duration > payloadDuration
    BY <2>2, DurationIs, FillIs
  <2> HIDE DEF duration
  <2>4. \A i \in 0 .. payloadDuration - 1 : frame'[i] = frame[i]
    BY <1>1, <2>1, <2>3
  <2>5. ValidateSyncMarkers' /\ ReadSyncPacket(frame').editUnitDuration = duration
    BY <2>1, <2>4, SamePayload DEF ValidatePayload, duration
  <2>6. QED
    BY <1>1, <2>1, <2>2, <2>3, <2>5 DEF FrameValid
<1>5. CASE ShuffleFrame
  <2>1. PICK first \in LaterMarkers : offsetIntoFrame' = currentFrameDuration - first
    BY <1>5 DEF ShuffleFrame
  <2>2. /\ offsetIntoFrame = currentFrameDuration /\ offsetIntoFrame # payloadDuration /\ ~checking'
        /\ UNCHANGED currentFrameDuration
    BY <1>5 DEF ShuffleFrame, FrameFull, Checks
  <2>3. first \in 2 .. currentFrameDuration - 1 /\ IsMarker(frame[first])
    BY DEF LaterMarkers
  <2>4. Checked
    BY <1>1, <2>2 DEF Checked
  <2>5. offsetIntoFrame' < currentFrameDuration
    BY <1>1, <2>1, <2>3
  <2>6. currentFrameDuration < 2 * payloadDuration => first >= payloadDuration
    <3>1. currentFrameDuration < 2 * payloadDuration =>
            \A i \in 2 .. payloadDuration - 1 : ~IsMarker(frame[i])
      BY <2>4 DEF FrameValid, ValidateSyncMarkers
    <3>2. ~(first >= payloadDuration) => first \in 2 .. payloadDuration - 1
      BY <1>1, <2>3
    <3>3. QED
      BY <2>3, <3>1, <3>2
  <2>7. currentFrameDuration < 2 * payloadDuration => offsetIntoFrame' < payloadDuration
    BY <1>1, <2>1, <2>3, <2>6
  <2>8. currentFrameDuration \in {p.editUnitDuration : p \in Sent}
    BY <2>4 DEF FrameValid
  <2>9. offsetIntoFrame' \in Nat
    BY <1>1, <2>1, <2>3
  <2>10. Checked' => offsetIntoFrame' >= payloadDuration
    BY DEF Checked
  <2>11. ~(Checked' /\ currentFrameDuration < 2 * payloadDuration)
    BY <1>1, <2>7, <2>9, <2>10
  <2>12. QED
    BY <2>2, <2>5, <2>8, <2>11, Zenon DEF FrameValid
<1>6. CASE (SkipSilence \/ SkipSample) /\ offsetIntoFrame' = offsetIntoFrame
  <2>1. lookingForSyncMarker /\ UNCHANGED frameVars
    BY <1>6 DEF SkipSilence, SkipSample
  <2>2. offsetIntoFrame' = 0 /\ currentFrameDuration' = currentFrameDuration
    BY <2>1 DEF BoundsInv, SearchInv, frameVars
  <2>3. QED
    BY <1>3, <2>2
<1>7. CASE Continue
  <2>1. /\ checking /\ ~checking' /\ UNCHANGED frameVars
        /\ offsetIntoFrame # payloadDuration /\ offsetIntoFrame # currentFrameDuration
    BY <1>7 DEF Continue, Checks
  <2>2. UNCHANGED ValidateSyncMarkers /\ (Checked' => Checked)
    BY <2>1 DEF frameVars, ValidateSyncMarkers, CheckSyncMarker, Checked
  <2>3. offsetIntoFrame < currentFrameDuration
    BY <1>1, <2>1
  <2>4. QED
    BY <2>1, <2>2, <2>3 DEF FrameValid, frameVars
<1>8. CASE Resets
  <2>1. offsetIntoFrame' = 0 /\ currentFrameDuration' = currentFrameDuration
    BY <1>8, ResetsReset DEF ResetFrame
  <2>2. QED
    BY <1>3, <2>1
<1>9. SkipSilence \/ SkipSample => offsetIntoFrame' = offsetIntoFrame
  BY DEF SkipSilence, SkipSample, frameVars
<1>10. QED
  BY <1>2, <1>4, <1>5, <1>6, <1>7, <1>8, <1>9 DEF ParseFrames, Takings, Resets

-----------------------------------------------------------------------------

\* The last i samples in the frame are the first of p's.
HoldsPart(p, i) ==
  i <= offsetIntoFrame /\ \A k \in 0 .. i - 1 : frame[offsetIntoFrame - i + k] = SampleAt(p, k)

\* What of p's frame has been taken, and is to be taken, is all that the frame will hold.
LEMMA EndsTogether ==
  ASSUME FramesHaveFill, BoundsInv, FrameValid, FewLengths, ~checking,
         NEW p \in Sent, NEW i \in Nat, i < p.editUnitDuration, HoldsPart(p, i),
         NEW n \in Nat, i + n >= p.editUnitDuration, offsetIntoFrame + n <= currentFrameDuration,
         n < p.editUnitDuration, offsetIntoFrame < payloadDuration => offsetIntoFrame + n <= payloadDuration
  PROVE  /\ offsetIntoFrame = i /\ currentFrameDuration = p.editUnitDuration
         /\ i + n = p.editUnitDuration /\ i >= payloadDuration
<1> DEFINE d == p.editUnitDuration
           D == currentFrameDuration
           offset == offsetIntoFrame
<1>1. /\ D \in Nat /\ D > payloadDuration /\ offset \in Nat /\ offset <= D
      /\ payloadDuration \in Nat /\ payloadDuration > 40
      /\ d \in Nat /\ d > payloadDuration /\ i <= offset
      /\ i < d /\ i + n >= d /\ offset + n <= D /\ n < d
      /\ \A k \in 0 .. i - 1 : frame[offset - i + k] = SampleAt(p, k)
  BY PayloadIs, DurationIs, FillIs DEF BoundsInv, FrameTypes, HoldsPart
<1>2. offset >= payloadDuration /\ i > 0
  BY <1>1
<1>3. D >= d
  BY <1>1
<1>4. Checked
  BY <1>2 DEF Checked
<1>5. PICK q \in Sent : D = q.editUnitDuration
  BY <1>4 DEF FrameValid
<1>6. CASE D = d
  <2>1. offset = i
    BY <1>1, <1>6
  <2>2. QED
    BY <1>1, <1>2, <1>6, <2>1
<1>7. CASE D # d
  <2>1. D < 2 * payloadDuration
    BY <1>1, <1>3, <1>5, <1>7 DEF FewLengths
  <2>2. ValidateSyncMarkers /\ D = ReadSyncPacket(frame).editUnitDuration
    BY <1>4, <2>1 DEF FrameValid
  <2>3. frame[offset - i] = SyncMarker
    <3>1. 0 \in 0 .. i - 1 /\ offset - i + 0 = offset - i
      BY <1>1, <1>2
    <3>2. frame[offset - i + 0] = SampleAt(p, 0)
      BY <1>1, <3>1
    <3>3. SampleAt(p, 0) = SyncMarker
      BY ValueIs
    <3>4. QED
      BY <3>1, <3>2, <3>3
  <2>4. offset = i
    <3>1. offset - i \in Nat
      BY <1>1
    <3>2. offset - i # 1
      <4>1. frame[1] = -SyncMarker /\ -SyncMarker # SyncMarker
        BY <2>2, MarkerIs DEF ValidateSyncMarkers, CheckSyncMarker, IsTail
      <4>2. QED
        BY <2>3, <4>1
    <3>3. offset - i \notin 2 .. payloadDuration - 1
      BY <2>2, <2>3 DEF ValidateSyncMarkers, IsMarker
    <3>4. ~(offset - i >= payloadDuration)
      BY <1>1, <2>1
    <3>5. QED
      BY <1>1, <3>1, <3>2, <3>3, <3>4
  <2>5. frame[14] = d
    <3>1. 14 \in 0 .. i - 1 /\ offset - i + 14 = 14
      BY <1>1, <1>2, <2>4
    <3>2. frame[offset - i + 14] = SampleAt(p, 14)
      BY <1>1, <3>1
    <3>3. SampleAt(p, 14) = d
      BY ValueIs
    <3>4. QED
      BY <3>1, <3>2, <3>3
  <2>6. D = d % Word
    BY <2>2, <2>5 DEF ReadSyncPacket, ReadUInt16
  <2>7. d % Word = d
    <3>1. d \in UInt16
      BY SEClientAssumption DEF SyncPackets
    <3>2. \A w \in Nat \ {0} : \A v \in 0 .. w - 1 : v % w = v
      OBVIOUS
    <3>3. QED
      BY <3>1, <3>2, WordIs DEF UInt16
  <2>8. QED
    BY <1>7, <2>6, <2>7
<1>8. QED
  BY <1>6, <1>7

\* The frame goes on with the next samples of p's.
LEMMA PartGrows ==
  ASSUME BoundsInv, NEW p \in Sent, NEW i \in Nat, HoldsPart(p, i), NEW n, Taken(n),
         \A k \in Nat : k < n => currentAudioBuffer[currentSample + k] = SampleAt(p, i + k)
  PROVE  HoldsPart(p, i + n)'
<1> DEFINE offset == offsetIntoFrame
<1>1. /\ n \in Nat /\ currentSample \in Nat /\ offset \in Nat /\ i <= offset
      /\ offset + n <= currentFrameDuration /\ offset' = offset + n
      /\ \A j \in 0 .. currentFrameDuration - 1 :
           frame'[j] = IF offset <= j /\ j < offset + n THEN currentAudioBuffer[currentSample + j - offset]
                       ELSE frame[j]
      /\ currentFrameDuration \in Nat
  BY DEF BoundsInv, BufferTypes, FrameTypes, Taken, HoldsPart
<1>2. ASSUME NEW k \in 0 .. (i + n) - 1
      PROVE  frame'[offset' - (i + n) + k] = SampleAt(p, k)
  <2>1. /\ offset' - (i + n) + k = offset - i + k /\ offset - i + k \in 0 .. currentFrameDuration - 1
        /\ k \in Nat
    BY <1>1
  <2>2. CASE k < i
    <3>1. ~(offset <= offset - i + k) /\ k \in 0 .. i - 1
      BY <1>1, <2>2
    <3>2. frame'[offset - i + k] = frame[offset - i + k]
      BY <1>1, <2>1, <3>1
    <3>3. QED
      BY <2>1, <3>1, <3>2 DEF HoldsPart
  <2>3. CASE ~(k < i)
    <3>1. /\ offset <= offset - i + k /\ offset - i + k < offset + n
          /\ currentSample + (offset - i + k) - offset = currentSample + (k - i)
          /\ k - i \in Nat /\ k - i < n /\ i + (k - i) = k
      BY <1>1, <2>1, <2>3
    <3>2. frame'[offset - i + k] = currentAudioBuffer[currentSample + (k - i)]
      BY <1>1, <2>1, <3>1
    <3>3. QED
      BY <2>1, <3>1, <3>2
  <2>4. QED
    BY <2>2, <2>3
<1>3. i + n <= offset'
  BY <1>1
<1>4. QED
  BY <1>2, <1>3 DEF HoldsPart

\* What the line has come to: in the frame of a packet, how many frames in a row came
\* whole, that one included, and what is owed for the one before.
LineStates == [packet : Sent, at : Nat, whole : 0 .. 2, owed : Owes]

Sound(s) ==
  s \in LineStates /\ s.at < s.packet.editUnitDuration /\ (s.owed # NothingOwed => s.whole = 2)

HasRead(p) ==
  /\ currentFrameDuration = p.editUnitDuration
  /\ syncPacket = AsRead(p) /\ payloadLength = PayloadWords

\* The frame is the first i samples of p's.
Aligned(p, i) ==
  offsetIntoFrame = i /\ HoldsPart(p, i) /\ (Checked => HasRead(p))

Full == checking /\ offsetIntoFrame = currentFrameDuration

Handed(p) ==
  /\ currentFrame = p.timelineEditUnitIndex /\ state = FlagsToState(p.flags)
  /\ validated = AsRead(p)

AboutToHand(p) == syncPacket = AsRead(p) /\ ValidateFillSamples

\* What the parser has made of a line that has come to s.
InStep(s) ==
  /\ s.whole = 1 => offsetIntoFrame = 0 \/ HoldsPart(s.packet, s.at)
  /\ s.whole = 2 /\ s.at = 0 => offsetIntoFrame = 0 \/ (Full /\ LaterMarkers = {})
  /\ s.whole = 2 /\ s.at > 0 => Aligned(s.packet, s.at)
  /\ s.owed # NothingOwed => IF s.at = 0 /\ Full THEN AboutToHand(s.owed) ELSE Handed(s.owed)

\* From c on, the buffer has what is left of the frame the line is in at s.
Exact(s, c) ==
  \A k \in Nat : c + k < bufferSize /\ s.at + k < s.packet.editUnitDuration =>
    currentAudioBuffer[c + k] = SampleAt(s.packet, s.at + k)

\* The line has come from s to e with the n samples of the buffer from c on.
Onward(s, e, c, n) ==
  \/ e.whole = 0
  \/ /\ e = s /\ s.at = 0 /\ s.owed = NothingOwed
     /\ \A k \in Nat : c + k < bufferSize => currentAudioBuffer[c + k] = 0
  \/ /\ Exact(s, c) /\ s.at + n < s.packet.editUnitDuration
     /\ e.packet = s.packet /\ e.at = s.at + n /\ e.whole = s.whole /\ e.owed = s.owed
  \/ /\ Exact(s, c) /\ s.at + n >= s.packet.editUnitDuration
     /\ e.at = s.at + n - s.packet.editUnitDuration
     /\ e.whole = (IF s.whole = 0 THEN 1 ELSE 2)
     /\ e.owed = (IF s.whole = 2 THEN s.packet ELSE NothingOwed)
     /\ \A k \in Nat : k < n /\ s.at + k >= s.packet.editUnitDuration =>
          currentAudioBuffer[c + k] = SampleAt(e.packet, s.at + k - s.packet.editUnitDuration)

LEMMA SoundIs ==
  ASSUME FramesHaveFill, NEW s, Sound(s)
  PROVE  /\ s.packet \in Sent /\ s.at \in Nat /\ s.whole \in {0, 1, 2} /\ s.owed \in Owes
         /\ s.packet.editUnitDuration \in Nat /\ s.packet.editUnitDuration > payloadDuration
         /\ s.at < s.packet.editUnitDuration /\ (s.owed # NothingOwed => s.whole = 2)
<1>1. s.packet \in Sent /\ s.at \in Nat /\ s.whole \in 0 .. 2 /\ s.owed \in Owes
  BY DEF Sound, LineStates
<1>2. s.whole \in {0, 1, 2}
  BY <1>1
<1>3. QED
  BY <1>1, <1>2, DurationIs, FillIs DEF Sound

\* Samples of a frame that are taken keep the parser in step.
LEMMA TakeInStep ==
  ASSUME FramesHaveFill, BuffersAreShort,
         BoundsInv, FrameValid, FewLengths, bufferSize \in BufferSizes, Takings, NEW n, Taken(n),
         UNCHANGED clientVars, NEW s, NEW e, Sound(s), Sound(e), InStep(s),
         Onward(s, e, currentSample, n)
  PROVE  InStep(e)'
<1> DEFINE p == s.packet
           i == s.at
           d == p.editUnitDuration
           c == currentSample
           offset == offsetIntoFrame
           D == currentFrameDuration
<1>1. /\ p \in Sent /\ i \in Nat /\ s.whole \in {0, 1, 2} /\ d \in Nat /\ i < d
      /\ (s.owed # NothingOwed => s.whole = 2) /\ (e.owed # NothingOwed => e.whole = 2)
      /\ e.packet \in Sent /\ e.at \in Nat /\ e.whole \in {0, 1, 2}
  BY SoundIs
<1>2. /\ ~checking /\ checking' /\ UNCHANGED packetVars /\ c < bufferSize
      /\ offset < payloadDuration => offset + n <= payloadDuration
      /\ offset = 0 => currentAudioBuffer[c] = SyncMarker
  BY TakingsBound
<1>3. /\ n \in Nat /\ c + n <= bufferSize /\ offset + n <= D /\ offset' = offset + n /\ D' = D
      /\ c \in Nat /\ bufferSize \in Nat /\ offset \in Nat /\ D \in Nat /\ D > payloadDuration
      /\ payloadDuration \in Nat /\ payloadDuration > 40
      /\ frame' \in [0 .. D - 1 -> Int]
      /\ \A j \in 0 .. D - 1 :
           frame'[j] = IF offset <= j /\ j < offset + n THEN currentAudioBuffer[c + j - offset]
                       ELSE frame[j]
  BY PayloadIs DEF Taken, BoundsInv, BufferTypes, FrameTypes
<1>4. n < d
  <2>1. d > bufferSize
    BY <1>1, LongIs
  <2>2. QED
    BY <1>1, <1>3, <2>1
<1>5. \A q : Handed(q) => Handed(q)'
  BY DEF Handed, clientVars
<1>6. CASE e.whole = 0
  BY <1>1, <1>6 DEF InStep
\* Where the line is exact, a frame that is empty is begun with the frame's marker.
<1>7. ASSUME Exact(s, c), offset = 0
      PROVE  i = 0
  <2>1. c + 0 < bufferSize /\ i + 0 < d /\ 0 \in Nat /\ c + 0 = c /\ i + 0 = i
    BY <1>1, <1>2, <1>3
  <2>2. currentAudioBuffer[c] = SampleAt(p, i)
    BY <1>7, <2>1 DEF Exact
  <2>3. i > 0 => SampleAt(p, i) # SyncMarker
    BY <1>1, ValueIs
  <2>4. QED
    BY <1>1, <1>2, <1>7, <2>2, <2>3
<1>8. ASSUME Exact(s, c), HoldsPart(p, i), i + n <= d
      PROVE  HoldsPart(p, i + n)'
  <2>1. ASSUME NEW k \in Nat, k < n
        PROVE  currentAudioBuffer[c + k] = SampleAt(p, i + k)
    <3>1. c + k < bufferSize /\ i + k < d
      BY <1>1, <1>3, <1>8, <2>1
    <3>2. QED
      BY <1>8, <3>1 DEF Exact
  <2>2. QED
    BY <1>1, <1>8, <2>1, PartGrows
<1>9. HoldsPart(p, 0)
  BY <1>3 DEF HoldsPart
<1>10. CASE /\ e = s /\ i = 0 /\ s.owed = NothingOwed
            /\ \A k \in Nat : c + k < bufferSize => currentAudioBuffer[c + k] = 0
  <2>1. currentAudioBuffer[c] # SyncMarker
    <3>1. c + 0 < bufferSize /\ 0 \in Nat /\ c + 0 = c
      BY <1>2, <1>3
    <3>2. QED
      BY <1>10, <3>1, MarkerIs
  <2>2. s.whole # 2
    BY <1>2, <1>10, <2>1 DEF InStep, Full
  <2>3. HoldsPart(p, 0)'
    BY <1>3 DEF HoldsPart
  <2>4. QED
    BY <1>10, <2>2, <2>3 DEF InStep
<1>11. CASE /\ Exact(s, c) /\ i + n < d
            /\ e.packet = p /\ e.at = i + n /\ e.whole = s.whole /\ e.owed = s.owed
  <2>1. CASE s.whole = 1
    <3>1. HoldsPart(p, i)
      BY <1>7, <1>9, <1>11, <2>1 DEF InStep
    <3>2. HoldsPart(p, i + n)'
      BY <1>1, <1>3, <1>8, <1>11, <3>1
    <3>3. s.owed = NothingOwed
      BY <1>1, <2>1
    <3>4. QED
      BY <1>11, <2>1, <3>2, <3>3 DEF InStep
  <2>2. CASE s.whole = 2
    <3>1. offset = i /\ HoldsPart(p, i) /\ (offset >= payloadDuration => HasRead(p))
      <4>1. CASE i = 0
        BY <1>2, <1>3, <1>9, <2>2, <4>1 DEF InStep, Full
      <4>2. CASE i # 0
        <5>1. Aligned(p, i)
          BY <1>1, <2>2, <4>2 DEF InStep
        <5>2. QED
          BY <1>2, <5>1 DEF Aligned, Checked
      <4>3. QED
        BY <4>1, <4>2
    <3>2. HoldsPart(p, i + n)'
      BY <1>1, <1>3, <1>8, <1>11, <3>1
    <3>3. Checked' => HasRead(p)'
      <4>1. ASSUME Checked'
            PROVE  offset >= payloadDuration
        BY <1>2, <1>3, <4>1 DEF Checked
      <4>2. HasRead(p) => HasRead(p)'
        BY <1>2, <1>3 DEF HasRead, packetVars
      <4>3. QED
        BY <3>1, <4>1, <4>2
    <3>4. Aligned(p, i + n)'
      BY <1>3, <3>1, <3>2, <3>3 DEF Aligned
    <3>5. i + n = 0 => offset' = 0 /\ ~Full'
      BY <1>1, <1>3, <3>1 DEF Full
    <3>6. s.owed # NothingOwed => Handed(s.owed)
      <4>1. ~Full
        BY <1>2 DEF Full
      <4>2. QED
        BY <4>1 DEF InStep
    <3>7. e.owed # NothingOwed => Handed(e.owed)'
      BY <1>5, <1>11, <3>6
    <3>8. QED
      BY <1>11, <2>2, <3>4, <3>5, <3>7 DEF InStep
  <2>3. QED
    BY <1>1, <1>6, <1>11, <2>1, <2>2
<1>12. CASE /\ Exact(s, c) /\ i + n >= d /\ e.at = i + n - d
            /\ e.whole = (IF s.whole = 0 THEN 1 ELSE 2)
            /\ e.owed = (IF s.whole = 2 THEN p ELSE NothingOwed)
            /\ \A k \in Nat : k < n /\ i + k >= d =>
                 currentAudioBuffer[c + k] = SampleAt(e.packet, i + k - d)
  <2>4. /\ e.at = i + n - d /\ i + n >= d /\ n \in Nat /\ i \in Nat /\ d \in Nat /\ i < d
        /\ e.at \in Nat /\ offset \in Nat /\ offset' = offset + n /\ c \in Nat
        /\ offset + n <= D /\ D \in Nat
    BY <1>1, <1>3, <1>12, Zenon
  <2>1. CASE s.whole = 0
    <3>1. e.at <= n /\ e.at <= offset'
      BY <2>4
    <3>2. ASSUME NEW k \in 0 .. e.at - 1
          PROVE  frame'[offset' - e.at + k] = SampleAt(e.packet, k)
      <4> DEFINE j == offset' - e.at + k
                 m == n - e.at + k
      <4>1. j \in 0 .. D - 1 /\ offset <= j /\ j < offset + n /\ c + j - offset = c + m
        BY <2>4, <3>1
      <4>2. m \in Nat /\ m < n /\ i + m >= d /\ i + m - d = k
        BY <2>4, <3>1
      <4> HIDE DEF m, j
      <4>3. frame'[j] = currentAudioBuffer[c + m]
        BY <1>3, <4>1
      <4>4. currentAudioBuffer[c + m] = SampleAt(e.packet, k)
        BY <1>12, <4>2
      <4>5. QED
        BY <4>3, <4>4 DEF j
    <3>3. HoldsPart(e.packet, e.at)'
      BY <3>1, <3>2 DEF HoldsPart
    <3>4. QED
      BY <1>12, <2>1, <3>3 DEF InStep
  <2>2. CASE s.whole # 0
    <3>1. i > 0
      BY <1>1, <1>3, <1>4, <1>12
    <3>2. HoldsPart(p, i) /\ (s.whole = 2 => Aligned(p, i))
      BY <1>1, <1>7, <1>12, <2>2, <3>1 DEF InStep, Aligned
    <3>3. offset = i /\ D = d /\ i + n = d /\ i >= payloadDuration
      BY <1>1, <1>2, <1>3, <1>4, <1>12, <3>2, EndsTogether
    <3>4. HoldsPart(p, d)'
      BY <1>1, <1>3, <1>8, <1>12, <3>2, <3>3
    <3>5. ASSUME NEW j \in 0 .. D' - 1
          PROVE  frame'[j] = SampleAt(p, j)
      <4>1. offset' - d + j = j /\ j \in 0 .. d - 1
        BY <1>1, <1>3, <3>3
      <4>2. frame'[offset' - d + j] = SampleAt(p, j)
        BY <3>4, <4>1 DEF HoldsPart
      <4>3. QED
        BY <4>1, <4>2
    <3>6. Full' /\ e.at = 0
      <4>1. e.at = 0 /\ offset + n = D
        BY <2>4, <3>3
      <4>2. QED
        BY <1>2, <1>3, <4>1 DEF Full
    <3>7. LaterMarkers' = {}
      <4>1. ASSUME NEW j \in 2 .. D' - 1
            PROVE  ~IsMarker(frame'[j])
        <5>1. j \in 0 .. D' - 1 /\ j \in Nat /\ j > 0
          BY <1>3
        <5>2. QED
          BY <1>1, <3>5, <5>1, ValueIs DEF IsMarker
      <4>2. QED
        BY <4>1 DEF LaterMarkers
    <3>8. s.whole = 2 => AboutToHand(p)'
      <4>1. SUFFICES ASSUME s.whole = 2 PROVE AboutToHand(p)'
        OBVIOUS
      <4>2. HasRead(p)
        BY <1>2, <3>2, <3>3, <4>1 DEF Aligned, Checked
      <4>3. syncPacket' = AsRead(p) /\ payloadLength' = PayloadWords
        BY <1>2, <4>2 DEF HasRead, packetVars
      <4>4. 4 + 2 * PayloadWords = payloadDuration
        BY SyncPacketAssumption DEF payloadDuration, PayloadWords
      <4>5. ASSUME NEW j \in payloadDuration .. D' - 1
            PROVE  frame'[j] = 0
        <5>1. j \in 0 .. D' - 1 /\ j \in Nat /\ j >= payloadDuration
          BY <1>3
        <5>2. QED
          BY <1>1, <3>5, <5>1, ValueIs
      <4>6. ValidateFillSamples'
        BY <4>3, <4>4, <4>5 DEF ValidateFillSamples
      <4>7. QED
        BY <4>3, <4>6 DEF AboutToHand
    <3>9. e.owed # NothingOwed => AboutToHand(e.owed)'
      BY <1>12, <3>8
    <3>10. QED
      BY <1>12, <2>2, <3>6, <3>7, <3>9 DEF InStep
  <2>3. QED
    BY <2>1, <2>2
<1>13. QED
  BY <1>6, <1>10, <1>11, <1>12 DEF Onward

Skips == SkipSilence \/ SkipSample \/ FindMarkerWithoutTail \/ MissTail

\* What the steps do that go past samples without taking them.
LEMMA SkipsAre ==
  ASSUME BoundsInv, Skips
  PROVE  /\ ~checking /\ offsetIntoFrame' = 0 /\ UNCHANGED bufferVars
         /\ currentFrameDuration' = currentFrameDuration /\ currentSample < bufferSize
         /\ \E n \in Nat :
              /\ currentSample' = currentSample + n /\ currentSample + n <= bufferSize
              /\ n <= 1 \/ \A k \in Nat : k < n => currentAudioBuffer[currentSample + k] = 0
         /\ \/ offsetIntoFrame = 0 /\ currentAudioBuffer[currentSample] # SyncMarker
            \/ /\ offsetIntoFrame = 0 /\ currentSample + 1 < bufferSize
               /\ currentAudioBuffer[currentSample + 1] # -SyncMarker
            \/ offsetIntoFrame = 1 /\ currentAudioBuffer[currentSample] # -SyncMarker
<1>1. /\ bufferSize \in Nat /\ currentSample \in Nat
      /\ (lookingForSyncMarker => offsetIntoFrame = 0)
      /\ (~lookingForSyncMarker /\ lookingForSyncMarker2sComplement => offsetIntoFrame = 1)
  BY DEF BoundsInv, BufferTypes, SearchInv
<1>2. ~checking /\ UNCHANGED bufferVars /\ currentSample < bufferSize
  BY DEF Skips, SkipSilence, SkipSample, FindMarkerWithoutTail, FindsMarker, MissTail, Takes
<1>3. 0 \in Nat /\ 1 \in Nat /\ currentSample + 0 = currentSample
  BY <1>1
<1>4. CASE SkipSilence
  <2>1. /\ lookingForSyncMarker /\ currentAudioBuffer[currentSample] # SyncMarker /\ SilenceAhead
        /\ currentSample' = currentSample + SamplesToTest
        /\ UNCHANGED frameVars
    BY <1>4 DEF SkipSilence, IsMarker
  <2>2. SamplesToTest \in Nat /\ currentSample + SamplesToTest <= bufferSize
    BY <1>1, <1>2, PayloadIs DEF SamplesToTest
  <2>3. \A k \in Nat : k < SamplesToTest => currentAudioBuffer[currentSample + k] = 0
    <3>1. \A k \in Nat : k < SamplesToTest =>
            currentSample + k \in currentSample .. currentSample + SamplesToTest - 1
      BY <1>1, <2>2
    <3>2. QED
      BY <2>1, <3>1 DEF SilenceAhead
  <2>4. QED
    BY <1>1, <1>2, <2>1, <2>2, <2>3 DEF frameVars
<1>5. CASE SkipSample
  <2>1. /\ lookingForSyncMarker /\ currentAudioBuffer[currentSample] # SyncMarker
        /\ currentSample' = currentSample + 1 /\ UNCHANGED frameVars
    BY <1>5 DEF SkipSample, IsMarker
  <2>2. currentSample + 1 <= bufferSize /\ 1 <= 1
    BY <1>1, <1>2
  <2>3. QED
    BY <1>1, <1>2, <1>3, <2>1, <2>2 DEF frameVars
<1>6. CASE FindMarkerWithoutTail
  <2>1. /\ lookingForSyncMarker /\ currentSample + 1 < bufferSize
        /\ currentAudioBuffer[currentSample + 1] # -SyncMarker
        /\ currentSample' = currentSample + 1 /\ ResetFrame
    BY <1>6 DEF FindMarkerWithoutTail, FindsMarker, IsTail
  <2>2. currentSample + 1 <= bufferSize /\ 1 <= 1
    BY <1>1, <1>2
  <2>3. QED
    BY <1>1, <1>2, <1>3, <2>1, <2>2 DEF ResetFrame
<1>7. CASE MissTail
  <2>1. /\ ~lookingForSyncMarker /\ lookingForSyncMarker2sComplement
        /\ currentAudioBuffer[currentSample] # -SyncMarker
        /\ currentSample' = currentSample /\ ResetFrame
    BY <1>7 DEF MissTail, IsTail
  <2>2. currentSample + 0 <= bufferSize /\ 0 <= 1
    BY <1>1, <1>2
  <2>3. QED
    BY <1>1, <1>2, <1>3, <2>1, <2>2 DEF ResetFrame
<1>8. QED
  BY <1>4, <1>5, <1>6, <1>7 DEF Skips

\* No sample is skipped of a frame that comes behind a whole one.
LEMMA SkipInStep ==
  ASSUME FramesHaveFill,
         BoundsInv, Skips, bufferSize \in BufferSizes, NEW s, NEW e, Sound(s), Sound(e), InStep(s),
         NEW n \in Nat, currentSample + n <= bufferSize, Onward(s, e, currentSample, n),
         n <= 1 \/ \A k \in Nat : k < n => currentAudioBuffer[currentSample + k] = 0
  PROVE  InStep(e)'
<1> DEFINE p == s.packet
           i == s.at
           d == p.editUnitDuration
           c == currentSample
           offset == offsetIntoFrame
<1>1. /\ p \in Sent /\ i \in Nat /\ s.whole \in {0, 1, 2} /\ d \in Nat /\ i < d /\ d > 40
      /\ (s.owed # NothingOwed => s.whole = 2) /\ (e.owed # NothingOwed => e.whole = 2)
      /\ e.packet \in Sent /\ e.at \in Nat /\ e.whole \in {0, 1, 2}
      /\ bufferSize \in Nat /\ c \in Nat /\ currentFrameDuration \in Nat /\ currentFrameDuration > 40
  <2>1. /\ bufferSize \in Nat /\ c \in Nat /\ currentFrameDuration \in Nat
        /\ currentFrameDuration > payloadDuration /\ d \in Nat /\ d > payloadDuration
        /\ payloadDuration \in Nat /\ payloadDuration > 40
    BY SoundIs, PayloadIs DEF BoundsInv, BufferTypes, FrameTypes
  <2>2. d > 40 /\ currentFrameDuration > 40
    BY <2>1
  <2>3. QED
    BY <2>1, <2>2, SoundIs
<1>2. /\ ~checking /\ offset' = 0 /\ currentFrameDuration' = currentFrameDuration /\ c < bufferSize
      /\ \/ offset = 0 /\ currentAudioBuffer[c] # SyncMarker
         \/ offset = 0 /\ c + 1 < bufferSize /\ currentAudioBuffer[c + 1] # -SyncMarker
         \/ offset = 1 /\ currentAudioBuffer[c] # -SyncMarker
  BY SkipsAre
\* What is skipped ends before a frame, at the latest.
<1>3. e.whole = 2 => e.at = 0 /\ e.owed = NothingOwed
  <2>1. SUFFICES ASSUME e.whole = 2 PROVE e.at = 0 /\ e.owed = NothingOwed
    OBVIOUS
  <2>2. CASE Exact(s, c) /\ s.whole = 2
    <3>1. c + 0 = c /\ i + 0 = i /\ 0 \in Nat /\ 1 \in Nat /\ c + 0 < bufferSize /\ i + 0 < d
      BY <1>1, <1>2
    <3>2. currentAudioBuffer[c] = SampleAt(p, i)
      BY <2>2, <3>1 DEF Exact
    <3>3. i = 0 /\ c + 1 < bufferSize => currentAudioBuffer[c + 1] = SampleAt(p, 1)
      <4>1. i = 0 => i + 1 = 1 /\ i + 1 < d
        BY <1>1
      <4>2. QED
        BY <2>2, <3>1, <4>1 DEF Exact
    <3>4. (i = 0 => offset = 0) /\ (i # 0 => offset = i)
      <4>1. i = 0 => offset = 0
        BY <1>2, <2>2 DEF InStep, Full
      <4>2. ASSUME i # 0
            PROVE  offset = i
        <5>1. s.at > 0
          BY <1>1, <4>2
        <5>2. Aligned(s.packet, s.at)
          BY <2>2, <5>1 DEF InStep
        <5>3. QED
          BY <5>2 DEF Aligned
      <4>3. QED
        BY <4>1, <4>2, Zenon
    <3>5. SampleAt(p, 0) = SyncMarker /\ SampleAt(p, 1) = -SyncMarker
      <4>1. 0 \in Nat /\ 1 \in Nat /\ p \in Sent
        BY <1>1
      <4>2. SampleAt(p, 0) = SyncMarker
        BY <4>1, ValueIs
      <4>3. SampleAt(p, 1) = -SyncMarker
        BY <4>1, ValueIs
      <4>4. QED
        BY <4>2, <4>3
    <3>6. QED
      BY <1>1, <1>2, <3>2, <3>3, <3>4, <3>5
  <2>3. CASE e = s /\ i = 0 /\ s.owed = NothingOwed
    BY <2>3
  <2>4. CASE /\ Exact(s, c) /\ i + n < d
             /\ e.packet = p /\ e.at = i + n /\ e.whole = s.whole /\ e.owed = s.owed
    BY <2>1, <2>2, <2>4
  <2>5. CASE /\ Exact(s, c) /\ i + n >= d /\ e.at = i + n - d
             /\ e.whole = (IF s.whole = 0 THEN 1 ELSE 2)
             /\ e.owed = (IF s.whole = 2 THEN p ELSE NothingOwed)
             /\ \A k \in Nat : k < n /\ i + k >= d =>
                  currentAudioBuffer[c + k] = SampleAt(e.packet, i + k - d)
    <3>1. CASE s.whole = 2
      BY <2>2, <2>5, <3>1
    <3>2. CASE s.whole # 2
      <4>1. e.owed = NothingOwed
        BY <2>5, <3>2
      <4>2. e.at = i + n - d /\ i + n >= d
        BY <2>5
      <4>3. CASE n <= 1
        BY <1>1, <4>1, <4>2, <4>3
      <4>4. CASE \A k \in Nat : k < n => currentAudioBuffer[c + k] = 0
        <5>1. SUFFICES ASSUME e.at # 0 PROVE FALSE
          BY <4>1
        <5> DEFINE k == d - i
        <5>2. k \in Nat /\ k < n /\ i + k >= d /\ i + k - d = 0
          BY <1>1, <4>2, <5>1
        <5> HIDE DEF k
        <5>3. currentAudioBuffer[c + k] = SampleAt(e.packet, 0)
          BY <2>5, <5>2
        <5>4. SampleAt(e.packet, 0) = SyncMarker
          BY <1>1, ValueIs
        <5>5. QED
          BY <4>4, <5>2, <5>3, <5>4, MarkerIs
      <4>5. QED
        BY <4>3, <4>4
    <3>3. QED
      BY <3>1, <3>2
  <2>6. QED
    BY <2>1, <2>3, <2>4, <2>5 DEF Onward
<1>4. e.owed = NothingOwed
  BY <1>1, <1>3
<1>5. QED
  BY <1>1, <1>2, <1>3, <1>4 DEF InStep

\* The functions the validator calls leave the client alone but for a frame and for silence.
LEMMA ReactIs ==
  ASSUME React
  PROVE  /\ event' = NoEvent => UNCHANGED clientVars
         /\ event' = [kind |-> "frame", packet |-> syncPacket] =>
              /\ state' = FlagsToState(syncPacket.flags)
              /\ currentFrame' = syncPacket.timelineEditUnitIndex
              /\ validated' = syncPacket
<1>1. event' = NoEvent => event'.kind = "none"
  BY DEF NoEvent
<1>2. event' = [kind |-> "frame", packet |-> syncPacket] =>
        event'.kind = "frame" /\ event'.packet = syncPacket
  OBVIOUS
<1>3. "none" # "frame" /\ "none" # "silence" /\ "frame" # "silence"
  OBVIOUS
<1>4. QED
  BY <1>1, <1>2, <1>3 DEF React

LEMMA AsReadIs ==
  ASSUME NEW p \in Sent
  PROVE  /\ AsRead(p).flags = p.flags /\ AsRead(p).editUnitDuration = p.editUnitDuration
         /\ AsRead(p).timelineEditUnitIndex = p.timelineEditUnitIndex
<1>1. p \in SyncPackets
  BY SEClientAssumption
<1>2. {"flags", "editUnitDuration", "timelineEditUnitIndex"} \subseteq DOMAIN p
  BY <1>1 DEF SyncPackets
<1>3. QED
  BY <1>2 DEF AsRead

Looks == HandlePayload \/ RejectPayload \/ HandleFrame \/ ShuffleFrame \/ RejectFrame \/ Continue

\* A frame that comes behind a whole one passes every check.
LEMMA CheckInStep ==
  ASSUME FramesHaveFill,
         BoundsInv, DurationsAreSent, FrameValid, Looks, React, NEW s, Sound(s), InStep(s)
  PROVE  InStep(s)'
<1> DEFINE p == s.packet
           i == s.at
           d == p.editUnitDuration
           offset == offsetIntoFrame
           D == currentFrameDuration
<1>1. /\ p \in Sent /\ i \in Nat /\ s.whole \in {0, 1, 2} /\ d \in Nat /\ i < d /\ d > payloadDuration
      /\ (s.owed # NothingOwed => s.whole = 2) /\ s.owed \in Owes
      /\ D \in Nat /\ D > payloadDuration /\ offset \in Nat /\ offset <= D
      /\ payloadDuration \in Nat /\ payloadDuration > 40
      /\ frame \in [0 .. D - 1 -> Int]
  BY SoundIs, PayloadIs DEF BoundsInv, FrameTypes
<1>2. checking /\ ~checking'
  BY DEF Looks, HandlePayload, RejectPayload, HandleFrame, ShuffleFrame, RejectFrame, Continue, Checks
<1>3. event' = NoEvent => \A q : Handed(q) => Handed(q)'
  BY ReactIs DEF Handed, clientVars
<1>4. CASE s.whole = 0
  BY <1>1, <1>4 DEF InStep
<1>5. CASE s.whole = 1 /\ offset' = 0
  BY <1>1, <1>5 DEF InStep
\* The parser holds what it has been given of the frame, and the frame is not full.
<1>6. ASSUME s.whole = 2, i > 0
      PROVE  /\ offset = i /\ HoldsPart(p, i) /\ ~FrameFull
             /\ \A k \in 0 .. i - 1 : frame[k] = SampleAt(p, k)
             /\ s.owed # NothingOwed => Handed(s.owed)
  <2>1. Aligned(p, i)
    BY <1>6 DEF InStep
  <2>2. ~FrameFull
    <3>1. SUFFICES ASSUME FrameFull PROVE FALSE
      OBVIOUS
    <3>2. offset = D /\ Checked
      BY <1>1, <3>1 DEF FrameFull, Checked
    <3>3. QED
      BY <1>1, <2>1, <3>2 DEF Aligned, HasRead
  <2>3. \A k \in 0 .. i - 1 : frame[k] = SampleAt(p, k)
    <3>1. \A k \in 0 .. i - 1 : offset - i + k = k
      BY <1>1, <2>1 DEF Aligned
    <3>2. QED
      BY <2>1, <3>1 DEF Aligned, HoldsPart
  <2>4. s.owed # NothingOwed => Handed(s.owed)
    BY <1>6 DEF InStep
  <2>5. QED
    BY <2>1, <2>2, <2>3, <2>4 DEF Aligned
<1>7. ASSUME s.whole = 2, i > 0, offset = payloadDuration
      PROVE  ValidatePayload /\ frame[2] = PayloadWords /\ ReadSyncPacket(frame) = AsRead(p)
  <2>1. PayloadOf(p, frame)
    BY <1>6, <1>7 DEF PayloadOf
  <2>2. QED
    BY <1>1, <2>1, PayloadIsValid, ReadAsWritten DEF BoundsInv
<1>8. s.whole = 2 /\ i = 0 => offset = 0 \/ (offset = D /\ LaterMarkers = {})
  BY DEF InStep, Full
<1>9. CASE HandlePayload
  <2> DEFINE duration == ReadSyncPacket(frame).editUnitDuration
  <2>1. /\ offset = payloadDuration /\ ValidatePayload /\ duration # 0 /\ D' = duration
        /\ frame' = IF duration = D THEN frame
                    ELSE [j \in 0 .. duration - 1 |->
                            IF j < payloadDuration THEN frame[j] ELSE Garbage]
        /\ UNCHANGED offset /\ event' = NoEvent
        /\ payloadLength' = frame[2] /\ syncPacket' = ReadSyncPacket(frame)
    BY <1>9 DEF HandlePayload
  <2>2. duration \in Nat /\ duration > payloadDuration
    BY <1>2, <2>1, DurationIs, FillIs DEF DurationsAreSent
  <2> HIDE DEF duration
  <2>3. \A j \in 0 .. payloadDuration - 1 : frame'[j] = frame[j]
    BY <1>1, <2>1, <2>2
  <2>4. HoldsPart(p, i) => HoldsPart(p, i)'
    <3>1. ASSUME HoldsPart(p, i), NEW k \in 0 .. i - 1
          PROVE  frame'[offset' - i + k] = SampleAt(p, k)
      <4>1. i <= offset /\ frame[offset - i + k] = SampleAt(p, k)
        BY <3>1 DEF HoldsPart
      <4>4. \A a, b \in Nat : \A m \in 0 .. b - 1 : b <= a => a - b + m \in 0 .. a - 1
        OBVIOUS
      <4>2. offset - i + k \in 0 .. payloadDuration - 1
        BY <1>1, <2>1, <4>1, <4>4
      <4>3. QED
        BY <2>1, <2>3, <4>1, <4>2
    <3>2. HoldsPart(p, i) => i <= offset'
      BY <2>1 DEF HoldsPart
    <3>3. QED
      BY <3>1, <3>2 DEF HoldsPart
  <2>5. CASE s.whole = 1
    <3>1. HoldsPart(p, i)
      BY <1>1, <2>1, <2>5 DEF InStep
    <3>2. QED
      BY <1>1, <2>4, <2>5, <3>1 DEF InStep
  <2>6. CASE s.whole = 2 /\ i = 0
    BY <1>1, <1>8, <2>1, <2>6
  <2>7. CASE s.whole = 2 /\ i > 0
    <3>1. frame[2] = PayloadWords /\ ReadSyncPacket(frame) = AsRead(p)
      BY <1>7, <2>1, <2>7
    <3>2. HasRead(p)'
      BY <1>1, <2>1, <3>1, AsReadIs DEF HasRead, duration
    <3>3. Aligned(p, i)'
      BY <1>6, <2>1, <2>4, <2>7, <3>2 DEF Aligned
    <3>4. s.owed # NothingOwed => Handed(s.owed)'
      BY <1>3, <1>6, <2>1, <2>7
    <3>5. i # 0
      BY <1>1, <2>7
    <3>6. QED
      BY <2>7, <3>3, <3>4, <3>5 DEF InStep
  <2>8. QED
    BY <1>1, <1>4, <2>5, <2>6, <2>7
<1>10. CASE RejectPayload
  <2>1. /\ offset = payloadDuration
        /\ ~ValidatePayload \/ ReadSyncPacket(frame).editUnitDuration = 0
        /\ ResetFrame
    BY <1>10 DEF RejectPayload
  <2>2. offset' = 0
    BY <2>1 DEF ResetFrame
  <2>3. ~(s.whole = 2 /\ i = 0)
    BY <1>1, <1>8, <2>1
  <2>4. ~(s.whole = 2 /\ i > 0)
    <3>1. SUFFICES ASSUME s.whole = 2, i > 0 PROVE FALSE
      OBVIOUS
    <3>2. ValidatePayload /\ ReadSyncPacket(frame) = AsRead(p)
      BY <1>7, <2>1, <3>1
    <3>3. ReadSyncPacket(frame).editUnitDuration = d
      BY <1>1, <3>2, AsReadIs
    <3>4. QED
      BY <1>1, <2>1, <3>2, <3>3
  <2>5. QED
    BY <1>1, <1>4, <1>5, <2>2, <2>3, <2>4
<1>11. CASE HandleFrame
  <2>1. FrameFull /\ event' = [kind |-> "frame", packet |-> syncPacket] /\ ResetFrame
    BY <1>11 DEF HandleFrame
  <2>2. offset' = 0 /\ D' = D
    BY <2>1 DEF ResetFrame
  <2>3. ~(s.whole = 2 /\ i > 0)
    BY <1>6, <2>1
  <2>4. CASE s.whole = 2 /\ i = 0
    <3>1. ASSUME s.owed # NothingOwed
          PROVE  Handed(s.owed)'
      <4>1. Full
        BY <1>2, <2>1 DEF Full, FrameFull
      <4>2. syncPacket = AsRead(s.owed)
        BY <2>4, <3>1, <4>1 DEF InStep, AboutToHand
      <4>3. s.owed \in Sent
        BY <1>1, <3>1 DEF Owes
      <4>4. /\ state' = FlagsToState(syncPacket.flags) /\ validated' = syncPacket
            /\ currentFrame' = syncPacket.timelineEditUnitIndex
        BY <2>1, ReactIs
      <4>5. QED
        BY <4>2, <4>3, <4>4, AsReadIs DEF Handed
    <3>2. ~Full'
      BY <1>2 DEF Full
    <3>3. QED
      BY <2>2, <2>4, <3>1, <3>2 DEF InStep
  <2>5. QED
    BY <1>1, <1>4, <1>5, <2>2, <2>3, <2>4
<1>12. CASE RejectFrame
  <2>1. FrameFull /\ event' = NoEvent /\ ResetFrame /\ ~ValidateFillSamples
    BY <1>12 DEF RejectFrame
  <2>2. offset' = 0 /\ D' = D
    BY <2>1 DEF ResetFrame
  <2>3. ~(s.whole = 2 /\ i > 0)
    BY <1>6, <2>1
  <2>4. CASE s.whole = 2 /\ i = 0
    <3>1. s.owed = NothingOwed
      BY <1>2, <2>1, <2>4 DEF InStep, AboutToHand, Full, FrameFull
    <3>2. QED
      BY <2>2, <2>4, <3>1 DEF InStep
  <2>5. QED
    BY <1>1, <1>4, <1>5, <2>2, <2>3, <2>4
<1>13. CASE ShuffleFrame
  <2>1. PICK first \in LaterMarkers :
          /\ \A other \in LaterMarkers : first <= other
          /\ frame' = [j \in DOMAIN frame |-> IF j + first < D THEN frame[j + first] ELSE 0]
          /\ offset' = D - first
    BY <1>13 DEF ShuffleFrame
  <2>2. FrameFull /\ CheckSyncMarker /\ D' = D
    BY <1>13 DEF ShuffleFrame
  <2>3. ~(s.whole = 2 /\ i > 0)
    BY <1>6, <2>2
  <2>4. ~(s.whole = 2 /\ i = 0)
    <3>1. offset = D
      BY <2>2 DEF FrameFull
    <3>2. QED
      BY <1>1, <1>8, <2>1, <3>1
  <2>5. CASE s.whole = 1
    <3>1. HoldsPart(p, i) /\ offset = D
      BY <1>1, <2>2, <2>5 DEF InStep, FrameFull
    <3>2. first \in 2 .. D - 1
      BY <2>1 DEF LaterMarkers
    <3>3. i <= D - first
      <4>1. CASE i = 0
        BY <1>1, <3>2, <4>1
      <4>2. CASE i > 0
        <5>1. frame[D - i] = SyncMarker
          <6>1. 0 \in 0 .. i - 1 /\ offset - i + 0 = D - i
            BY <1>1, <3>1, <4>2
          <6>2. frame[offset - i + 0] = SampleAt(p, 0)
            BY <3>1, <6>1 DEF HoldsPart
          <6>3. QED
            BY <1>1, <6>1, <6>2, ValueIs
        <5>2. i <= D
          BY <3>1 DEF HoldsPart
        <5>3. D - i # 0
          <6>1. SUFFICES ASSUME i = D PROVE FALSE
            BY <1>1
          <6>2. /\ first \in 0 .. i - 1 /\ offset - i + first = first /\ first \in Nat /\ first > 0
            BY <1>1, <3>1, <3>2, <6>1
          <6>3. frame[offset - i + first] = SampleAt(p, first)
            BY <3>1, <6>2 DEF HoldsPart
          <6>4. frame[first] = SyncMarker
            BY <2>1 DEF LaterMarkers, IsMarker
          <6>5. SampleAt(p, first) # SyncMarker
            BY <1>1, <6>2, ValueIs
          <6>6. QED
            BY <6>2, <6>3, <6>4, <6>5
        <5>4. D - i # 1
          <6>1. frame[1] = -SyncMarker /\ -SyncMarker # SyncMarker
            BY <2>2, MarkerIs DEF CheckSyncMarker, IsTail
          <6>2. QED
            BY <5>1, <6>1
        <5>5. D - i \in 2 .. D - 1
          <6>1. \A a, b \in Nat : b > 0 /\ b <= a /\ a - b # 0 /\ a - b # 1 => a - b \in 2 .. a - 1
            OBVIOUS
          <6>2. i \in Nat /\ D \in Nat /\ i > 0 /\ i <= D
            BY <1>1, <3>1, <4>2, <5>2
          <6>3. QED
            BY <5>3, <5>4, <6>1, <6>2
        <5>6. D - i \in LaterMarkers
          BY <5>1, <5>5 DEF LaterMarkers, IsMarker
        <5>7. first <= D - i
          BY <2>1, <5>6
        <5>8. QED
          BY <1>1, <3>2, <5>7
      <4>3. QED
        BY <1>1, <4>1, <4>2
    <3>4. ASSUME NEW k \in 0 .. i - 1
          PROVE  frame'[offset' - i + k] = SampleAt(p, k)
      <4> DEFINE j == offset' - i + k
      <4>1. j \in 0 .. D - 1 /\ j + first < D /\ j + first = offset - i + k
        <5>1. \A a, b, f \in Nat : \A m \in 0 .. b - 1 : b <= a - f =>
                /\ (a - f) - b + m \in 0 .. a - 1 /\ ((a - f) - b + m) + f < a
                /\ ((a - f) - b + m) + f = a - b + m
          OBVIOUS
        <5>2. D \in Nat /\ i \in Nat /\ first \in Nat
          BY <1>1, <3>2
        <5>3. j = (D - first) - i + k
          BY <2>1
        <5> HIDE DEF j
        <5>4. QED
          BY <3>1, <3>3, <5>1, <5>2, <5>3
      <4> HIDE DEF j
      <4>2. frame'[j] = frame[j + first]
        BY <1>1, <2>1, <4>1
      <4>3. frame[offset - i + k] = SampleAt(p, k)
        BY <3>1 DEF HoldsPart
      <4>4. QED
        BY <4>1, <4>2, <4>3 DEF j
    <3>5. HoldsPart(p, i)'
      BY <2>1, <3>3, <3>4 DEF HoldsPart
    <3>6. QED
      BY <1>1, <2>5, <3>5 DEF InStep
  <2>6. QED
    BY <1>1, <1>4, <2>3, <2>4, <2>5
<1>14. CASE Continue
  <2>1. /\ offset # payloadDuration /\ offset # D /\ UNCHANGED frameVars /\ UNCHANGED packetVars
        /\ event' = NoEvent
    BY <1>14 DEF Continue
  <2>2. frame' = frame /\ offset' = offset /\ D' = D
    BY <2>1 DEF frameVars
  <2>3. HoldsPart(p, i) => HoldsPart(p, i)'
    BY <2>2 DEF HoldsPart
  <2>4. CASE s.whole = 1
    BY <1>1, <2>2, <2>3, <2>4 DEF InStep
  <2>5. CASE s.whole = 2 /\ i = 0
    <3>1. offset = 0
      BY <1>8, <2>1, <2>5
    <3>2. ~Full /\ ~Full'
      BY <1>2, <2>1 DEF Full
    <3>3. s.owed # NothingOwed => Handed(s.owed)'
      BY <1>3, <2>1, <3>2 DEF InStep
    <3>4. QED
      BY <2>2, <2>5, <3>1, <3>2, <3>3 DEF InStep
  <2>6. CASE s.whole = 2 /\ i > 0
    <3>1. Aligned(p, i)
      BY <2>6 DEF InStep
    <3>2. Checked' => Checked
      BY <2>1, <2>2 DEF Checked
    <3>3. Aligned(p, i)'
      BY <2>1, <2>2, <2>3, <3>1, <3>2 DEF Aligned, HasRead, packetVars
    <3>4. s.owed # NothingOwed => Handed(s.owed)'
      BY <1>3, <1>6, <2>1, <2>6
    <3>5. i # 0
      BY <1>1, <2>6
    <3>6. QED
      BY <2>6, <3>3, <3>4, <3>5 DEF InStep
  <2>7. QED
    BY <1>1, <1>4, <2>4, <2>5, <2>6
<1>15. QED
  BY <1>9, <1>10, <1>11, <1>12, <1>13, <1>14 DEF Looks

\* What is left of the frame that a line at s is in.
Rest(s) == s.packet.editUnitDuration - s.at

\* The way the line goes with the samples of a buffer: in the dark, where nothing of it
\* is whole, through a gap between two frames, or along its frames.
Passages == [kind : {"dark", "gap", "frame"}, from : LineStates, to : LineStates]

Carries(samples, t) ==
  /\ t \in Passages /\ Sound(t.from) /\ Sound(t.to)
  /\ t.kind = "dark" => t.to.whole = 0
  /\ t.kind = "gap" =>
       /\ t.to.at = 0 /\ t.to.owed = NothingOwed
       /\ \A i \in 0 .. bufferSize - 1 : samples[i] = 0
       /\ t.to.whole = t.from.whole /\ t.to.packet = t.from.packet /\ t.from.at = 0
  /\ t.kind = "frame" =>
       /\ \A i \in 0 .. bufferSize - 1 :
            samples[i] = IF i < Rest(t.from) THEN SampleAt(t.from.packet, t.from.at + i)
                         ELSE SampleAt(t.to.packet, i - Rest(t.from))
       /\ IF bufferSize < Rest(t.from)
          THEN t.to = [t.from EXCEPT !.at = @ + bufferSize]
          ELSE /\ t.to.at = bufferSize - Rest(t.from)
               /\ t.to.whole = (IF t.from.whole = 0 THEN 1 ELSE 2)
               /\ t.to.owed = (IF t.from.whole = 2 THEN t.from.packet ELSE NothingOwed)

\* What the line had come to with the first c samples.
Reached(t, c) ==
  IF t.kind # "frame" THEN t.to
  ELSE IF c < Rest(t.from) THEN [t.from EXCEPT !.at = @ + c]
  ELSE [t.to EXCEPT !.at = c - Rest(t.from)]

LEMMA StateIs ==
  ASSUME NEW s \in LineStates, NEW i \in Nat
  PROVE  LET r == [s EXCEPT !.at = i]
         IN  /\ r \in LineStates /\ r.packet = s.packet /\ r.at = i
             /\ r.whole = s.whole /\ r.owed = s.owed
             /\ (i = s.at => r = s)
BY DEF LineStates

LEMMA ReachedIs ==
  ASSUME FramesHaveFill,
         bufferSize \in Nat, NEW samples, NEW t, Carries(samples, t), NEW c \in Nat, c <= bufferSize,
         NEW r, r = Reached(t, c)
  PROVE  /\ Sound(r)
         /\ t.kind # "frame" => r = t.to
         /\ t.kind = "frame" /\ c < Rest(t.from) =>
              /\ r.packet = t.from.packet /\ r.at = t.from.at + c
              /\ r.whole = t.from.whole /\ r.owed = t.from.owed
         /\ t.kind = "frame" /\ ~(c < Rest(t.from)) =>
              /\ r.packet = t.to.packet /\ r.at = c - Rest(t.from)
              /\ r.whole = t.to.whole /\ r.owed = t.to.owed
         /\ c = bufferSize => r = t.to
<1>1. /\ t \in Passages /\ Sound(t.from) /\ Sound(t.to)
      /\ t.from \in LineStates /\ t.to \in LineStates
  BY DEF Carries, Sound
<1>2. /\ t.from.at \in Nat /\ t.from.packet.editUnitDuration \in Nat
      /\ t.from.at < t.from.packet.editUnitDuration
      /\ t.to.at \in Nat /\ t.to.packet.editUnitDuration \in Nat
      /\ t.to.at < t.to.packet.editUnitDuration
  BY <1>1, SoundIs
<1>3. CASE t.kind # "frame"
  BY <1>1, <1>3 DEF Reached
<1>4. CASE t.kind = "frame" /\ c < Rest(t.from)
  <2>1. r = [t.from EXCEPT !.at = t.from.at + c] /\ t.from.at + c \in Nat
    BY <1>2, <1>4 DEF Reached
  <2>2. /\ r \in LineStates /\ r.packet = t.from.packet /\ r.at = t.from.at + c
        /\ r.whole = t.from.whole /\ r.owed = t.from.owed
    BY <1>1, <2>1, StateIs
  <2>3. t.from.at + c < t.from.packet.editUnitDuration
    BY <1>2, <1>4 DEF Rest
  <2>4. Sound(r)
    BY <1>1, <2>2, <2>3 DEF Sound
  <2>5. c = bufferSize => r = t.to
    BY <1>4, <2>1 DEF Carries
  <2>6. QED
    BY <1>4, <2>2, <2>4, <2>5
<1>5. CASE t.kind = "frame" /\ ~(c < Rest(t.from))
  <2>1. Rest(t.from) \in Nat /\ Rest(t.from) <= c
    BY <1>2, <1>5 DEF Rest
  <2>2. t.to.at = bufferSize - Rest(t.from)
    BY <1>5, <2>1 DEF Carries
  <2>3. r = [t.to EXCEPT !.at = c - Rest(t.from)] /\ c - Rest(t.from) \in Nat
    BY <1>5, <2>1 DEF Reached
  <2>4. /\ r \in LineStates /\ r.packet = t.to.packet /\ r.at = c - Rest(t.from)
        /\ r.whole = t.to.whole /\ r.owed = t.to.owed
        /\ (c - Rest(t.from) = t.to.at => r = t.to)
    BY <1>1, <2>3, StateIs
  <2>5. c - Rest(t.from) < t.to.packet.editUnitDuration
    BY <1>2, <2>1, <2>2
  <2>6. Sound(r)
    BY <1>1, <2>4, <2>5 DEF Sound
  <2>7. QED
    BY <1>5, <2>2, <2>4, <2>6
<1>6. QED
  BY <1>3, <1>4, <1>5

\* A passage leads on.
LEMMA PassageLeadsOn ==
  ASSUME FramesHaveFill,
         bufferSize \in Nat, NEW t, Carries(currentAudioBuffer, t), NEW c \in Nat, NEW n \in Nat,
         c + n <= bufferSize, NEW s, NEW e, s = Reached(t, c), e = Reached(t, c + n)
  PROVE  Sound(s) /\ Sound(e) /\ Onward(s, e, c, n)
<1> DEFINE d == t.from.packet.editUnitDuration
<1>1. /\ c + n \in Nat /\ c <= bufferSize
      /\ Sound(t.from) /\ Sound(t.to) /\ t.kind \in {"dark", "gap", "frame"}
  BY DEF Carries, Passages
<1>2. PICK rest : rest = Rest(t.from)
  OBVIOUS
<1>3. /\ t.from.at \in Nat /\ d \in Nat /\ t.from.at < d /\ rest = d - t.from.at
      /\ rest \in Nat /\ t.to.at \in Nat /\ t.to.packet.editUnitDuration \in Nat
      /\ t.to.at < t.to.packet.editUnitDuration
  BY <1>1, <1>2, SoundIs DEF Rest
<1>4. Sound(s) /\ Sound(e)
  BY <1>1, ReachedIs
<1>5. SUFFICES Onward(s, e, c, n)
  BY <1>4
<1>6. CASE t.kind = "dark"
  BY <1>6 DEF Onward, Reached, Carries
<1>7. CASE t.kind = "gap"
  <2>1. s = t.to /\ e = t.to /\ t.to.at = 0 /\ t.to.owed = NothingOwed
    BY <1>7 DEF Reached, Carries
  <2>2. \A k \in Nat : c + k < bufferSize => currentAudioBuffer[c + k] = 0
    <3>1. \A k \in Nat : c + k < bufferSize => c + k \in 0 .. bufferSize - 1
      OBVIOUS
    <3>2. QED
      BY <1>7, <3>1 DEF Carries
  <2>3. QED
    BY <2>1, <2>2 DEF Onward
<1>8. CASE t.kind = "frame"
  <2>1. \A i \in 0 .. bufferSize - 1 :
          currentAudioBuffer[i] = IF i < rest THEN SampleAt(t.from.packet, t.from.at + i)
                                  ELSE SampleAt(t.to.packet, i - rest)
    BY <1>8, <1>2 DEF Carries
  <2>2. c < rest => /\ s.packet = t.from.packet /\ s.at = t.from.at + c
                    /\ s.whole = t.from.whole /\ s.owed = t.from.owed
    BY <1>1, <1>8, <1>2, ReachedIs
  <2>3. ~(c < rest) => /\ s.packet = t.to.packet /\ s.at = c - rest
                       /\ s.whole = t.to.whole /\ s.owed = t.to.owed
    BY <1>1, <1>8, <1>2, ReachedIs
  <2>4. c + n < rest => /\ e.packet = t.from.packet /\ e.at = t.from.at + (c + n)
                        /\ e.whole = t.from.whole /\ e.owed = t.from.owed
    BY <1>1, <1>8, <1>2, ReachedIs
  <2>5. ~(c + n < rest) => /\ e.packet = t.to.packet /\ e.at = c + n - rest
                           /\ e.whole = t.to.whole /\ e.owed = t.to.owed
    <3>1. PICK m : m = c + n
      OBVIOUS
    <3>2. m \in Nat /\ m <= bufferSize /\ e = Reached(t, m)
      BY <1>1, <3>1
    <3>3. ~(m < Rest(t.from)) => /\ e.packet = t.to.packet /\ e.at = m - Rest(t.from)
                                 /\ e.whole = t.to.whole /\ e.owed = t.to.owed
      BY <1>8, <3>2, ReachedIs
    <3>4. QED
      BY <1>3, <1>2, <3>1, <3>3
  <2>6. bufferSize >= rest =>
          /\ t.to.whole = (IF t.from.whole = 0 THEN 1 ELSE 2)
          /\ t.to.owed = (IF t.from.whole = 2 THEN t.from.packet ELSE NothingOwed)
          /\ t.to.at = bufferSize - rest
    BY <1>3, <1>8, <1>2 DEF Carries
  <2>7. CASE c < rest
    <3>1. ASSUME NEW k \in Nat, c + k < bufferSize, s.at + k < d
          PROVE  currentAudioBuffer[c + k] = SampleAt(s.packet, s.at + k)
      <4>1. c + k \in 0 .. bufferSize - 1 /\ c + k < rest /\ s.at + k = t.from.at + (c + k)
        BY <1>3, <2>2, <2>7, <3>1
      <4>2. QED
        BY <2>1, <2>2, <2>7, <4>1
    <3>2. Exact(s, c)
      BY <2>2, <2>7, <3>1 DEF Exact
    <3>3. CASE c + n < rest
      <4>1. s.at + n < d /\ e.at = s.at + n
        BY <1>3, <2>2, <2>4, <2>7, <3>3
      <4>2. QED
        BY <2>2, <2>4, <2>7, <3>2, <3>3, <4>1 DEF Onward
    <3>4. CASE ~(c + n < rest)
      <4>1. bufferSize >= rest /\ s.at + n >= d /\ e.at = s.at + n - d
        BY <1>3, <2>2, <2>5, <2>7, <3>4
      <4>2. ASSUME NEW k \in Nat, k < n, s.at + k >= d
            PROVE  currentAudioBuffer[c + k] = SampleAt(e.packet, s.at + k - d)
        <5>1. PICK i : i = c + k
          OBVIOUS
        <5>2. i \in 0 .. bufferSize - 1 /\ ~(i < rest) /\ s.at + k - d = i - rest
          BY <1>3, <2>2, <2>7, <4>2, <5>1
        <5>3. QED
          BY <2>1, <2>5, <3>4, <5>1, <5>2
      <4>3. /\ e.whole = (IF s.whole = 0 THEN 1 ELSE 2)
            /\ e.owed = (IF s.whole = 2 THEN s.packet ELSE NothingOwed)
        BY <2>2, <2>5, <2>6, <2>7, <3>4, <4>1
      <4>4. s.packet.editUnitDuration = d
        BY <2>2, <2>7
      <4> HIDE DEF d
      <4>5. QED
        BY <3>2, <4>1, <4>2, <4>3, <4>4 DEF Onward
    <3>5. QED
      BY <3>3, <3>4
  <2>8. CASE ~(c < rest)
    <3>1. bufferSize >= rest /\ ~(c + n < rest) /\ c >= rest
      BY <1>3, <2>8
    <3>2. ASSUME NEW k \in Nat, c + k < bufferSize
          PROVE  currentAudioBuffer[c + k] = SampleAt(s.packet, s.at + k)
      <4>1. PICK i : i = c + k
        OBVIOUS
      <4>2. i \in 0 .. bufferSize - 1 /\ ~(i < rest) /\ s.at + k = i - rest
        BY <1>3, <2>3, <2>8, <3>1, <3>2, <4>1
      <4>3. QED
        BY <2>1, <2>3, <2>8, <4>1, <4>2
    <3>3. Exact(s, c)
      BY <3>2 DEF Exact
    <3>4. s.at + n < s.packet.editUnitDuration /\ e.at = s.at + n
      BY <1>3, <2>3, <2>5, <2>6, <2>8, <3>1
    <3>5. QED
      BY <2>3, <2>5, <2>8, <3>1, <3>3, <3>4 DEF Onward
  <2>9. QED
    BY <2>7, <2>8
<1>9. QED
  BY <1>1, <1>6, <1>7, <1>8

\* Where the line is.
LineState == [packet |-> packet, at |-> at, whole |-> whole, owed |-> owed]

\* What comes behind T: the line goes on from there, or something is lost.
Succeeds(T, S) == S = T \/ (S.whole = 0 /\ S.owed = NothingOwed)

\* Every buffer that is not given to the parser yet has its passage, behind that of the
\* buffer being parsed.
Carried(TR) ==
  /\ TR \in Seq(Passages) /\ Len(TR) = Len(Pending) + 1
  /\ \A k \in 1 .. Len(Pending) :
       /\ Carries(Pending[k].samples, TR[k + 1]) /\ Pending[k].owed = TR[k + 1].to.owed
       /\ Succeeds(TR[k].to, TR[k + 1].from)
  /\ Succeeds(TR[Len(TR)].to, LineState)

InPassage(t, s) ==
  /\ Carries(currentAudioBuffer, t) /\ due = t.to.owed
  /\ s = Reached(t, currentSample) /\ InStep(s)

LineSound ==
  /\ bufferSize \in BufferSizes /\ (popped = <<>> \/ Len(popped) = 1)
  /\ LineState \in LineStates /\ Sound(LineState)

FollowInv == LineSound /\ FrameValid /\ \E TR, s : Carried(TR) /\ InPassage(TR[1], s)

LEMMA FollowsFromInv ==
  ASSUME FramesHaveFill, BoundsInv, FollowInv
  PROVE  FollowsTheSignal
<1> SUFFICES ASSUME Idle, due # NothingOwed
             PROVE  /\ currentFrame = due.timelineEditUnitIndex /\ state = FlagsToState(due.flags)
                    /\ validated = AsRead(due)
  BY DEF FollowsTheSignal
<1>1. PICK TR, s : InPassage(TR[1], s)
  BY DEF FollowInv
<1>2. currentSample = bufferSize /\ ~checking /\ bufferSize \in Nat /\ currentSample \in Nat
      /\ currentSample <= bufferSize
  BY DEF Idle, BoundsInv, BufferTypes
<1>3. s = TR[1].to
  BY <1>1, <1>2, ReachedIs DEF InPassage
<1>4. s.owed = due /\ InStep(s)
  BY <1>1, <1>3 DEF InPassage
<1>5. Handed(due)
  BY <1>2, <1>4 DEF InStep, Full
<1>6. QED
  BY <1>5 DEF Handed

-----------------------------------------------------------------------------
(* The steps of the parser.                                                *)

LEMMA ParseInStep ==
  ASSUME FramesHaveFill, BuffersAreShort,
         BoundsInv, DurationsAreSent, FewLengths, LineSound, FrameValid, Parse,
         NEW t, NEW s, InPassage(t, s)
  PROVE  \E e : InPassage(t, e)'
<1>1. /\ ParseFrames /\ React /\ UNCHANGED bufferVars /\ due' = due
      /\ bufferSize' = bufferSize /\ currentAudioBuffer' = currentAudioBuffer
  BY ParseKeepsBuffer DEF Parse, bufferVars
<1>2. /\ bufferSize \in BufferSizes /\ bufferSize \in Nat /\ currentSample \in Nat
      /\ currentSample <= bufferSize
      /\ Carries(currentAudioBuffer, t) /\ due = t.to.owed
      /\ s = Reached(t, currentSample) /\ InStep(s)
  BY DEF LineSound, BoundsInv, BufferTypes, InPassage
<1>3. PICK e : e = Reached(t, currentSample')
  OBVIOUS
<1>4. Carries(currentAudioBuffer, t)'
  BY <1>1, <1>2 DEF Carries
<1>5. (e = Reached(t, currentSample))'
  BY <1>3 DEF Reached
<1>6. SUFFICES InStep(e)'
  BY <1>1, <1>2, <1>4, <1>5 DEF InPassage
<1>7. ASSUME NEW n \in Nat, currentSample' = currentSample + n, currentSample + n <= bufferSize
      PROVE  Sound(s) /\ Sound(e) /\ Onward(s, e, currentSample, n)
  BY <1>2, <1>3, <1>7, PassageLeadsOn
<1>8. CASE Takings
  <2>1. PICK n : Taken(n)
    BY <1>8, TakingsTake DEF BoundsInv
  <2>2. Sound(s) /\ Sound(e) /\ Onward(s, e, currentSample, n)
    BY <1>7, <2>1 DEF Taken
  <2>3. UNCHANGED clientVars
    BY <1>1, <1>8, <2>1, TakingsBound, ReactIs
  <2>4. QED
    BY <1>2, <1>8, <2>1, <2>2, <2>3, TakeInStep
<1>9. CASE Skips
  <2>1. PICK n \in Nat :
          /\ currentSample' = currentSample + n /\ currentSample + n <= bufferSize
          /\ n <= 1 \/ \A k \in Nat : k < n => currentAudioBuffer[currentSample + k] = 0
    BY <1>9, SkipsAre
  <2>2. Sound(s) /\ Sound(e) /\ Onward(s, e, currentSample, n)
    BY <1>7, <2>1
  <2>3. QED
    BY <1>2, <1>9, <2>1, <2>2, SkipInStep
<1>10. CASE Looks
  <2>1. currentSample' = currentSample
    BY <1>10 DEF Looks, HandlePayload, RejectPayload, HandleFrame, ShuffleFrame, RejectFrame, Continue,
                 Checks
  <2>2. e = s
    BY <1>2, <1>3, <2>1
  <2>3. Sound(s)
    BY <1>2, ReachedIs
  <2>4. QED
    BY <1>1, <1>2, <1>10, <2>2, <2>3, CheckInStep
<1>11. QED
  BY <1>1, <1>8, <1>9, <1>10 DEF ParseFrames, Takings, Skips, Looks

LEMMA ParseFollows ==
  ASSUME FramesHaveFill, BuffersAreShort, BoundsInv, DurationsAreSent, FewLengths, FollowInv, Parse
  PROVE  FollowInv'
<1>1. PICK TR, s : Carried(TR) /\ InPassage(TR[1], s)
  BY DEF FollowInv
<1>2. \E e : InPassage(TR[1], e)'
  BY <1>1, ParseInStep DEF FollowInv
<1>3. bufferSize' = bufferSize
  BY ParseKeepsBuffer DEF Parse
<1>4. Pending' = Pending /\ LineState' = LineState /\ popped' = popped
  BY DEF Parse, Pending, LineState, lineVars, owedVars
<1>5. Carried(TR)'
  BY <1>1, <1>3, <1>4 DEF Carried, Carries
<1>6. FrameValid'
  BY ParseFrameValid DEF FollowInv, Parse
<1>7. LineSound'
  BY <1>3, <1>4 DEF FollowInv, LineSound
<1>8. QED
  BY <1>2, <1>5, <1>6, <1>7 DEF FollowInv

-----------------------------------------------------------------------------
(* The buffers that are handed on.                                         *)

\* Whoever does not touch the parser leaves it where it is.
LEMMA ParserWaits ==
  ASSUME UNCHANGED vvars, UNCHANGED clientVars, UNCHANGED due
  PROVE  /\ FrameValid => FrameValid'
         /\ \A t, s : InPassage(t, s) => InPassage(t, s)'
<1>1. UNCHANGED bufferVars /\ UNCHANGED frameVars /\ UNCHANGED packetVars /\ UNCHANGED clientVars
      /\ currentSample' = currentSample /\ checking' = checking /\ due' = due
  BY DEF vvars
<1>2. FrameValid => FrameValid'
  BY <1>1 DEF FrameValid, Checked, frameVars, ValidateSyncMarkers, CheckSyncMarker
<1>3. ASSUME NEW t, NEW s, InPassage(t, s)
      PROVE  InPassage(t, s)'
  <2>1. InStep(s)'
    BY <1>1, <1>3 DEF InPassage, InStep, HoldsPart, Aligned, Checked, HasRead, Full, LaterMarkers,
                      AboutToHand, ValidateFillSamples, Handed, frameVars, packetVars, clientVars
  <2>2. Carries(currentAudioBuffer, t)'
    BY <1>1, <1>3 DEF InPassage, Carries, bufferVars
  <2>3. (s = Reached(t, currentSample))'
    BY <1>1, <1>3 DEF InPassage, Reached
  <2>4. QED
    BY <1>1, <1>3, <2>1, <2>2, <2>3 DEF InPassage
<1>4. QED
  BY <1>2, <1>3

LEMMA PopFollows ==
  ASSUME BoundsInv, FollowInv, PopBuffer
  PROVE  FollowInv'
<1>1. PICK TR, s : Carried(TR) /\ InPassage(TR[1], s)
  BY DEF FollowInv
<1>2. Pending' = Pending
  <2>1. \A S : \A q \in Seq(S) : q # <<>> => <<Head(q)>> \o Tail(q) = <<>> \o q
    OBVIOUS
  <2>2. sampleQueue \in Seq(Queued)
    BY DEF BoundsInv, QueueTypes
  <2>3. QED
    BY <2>1, <2>2 DEF PopBuffer, Pending
<1>3. /\ UNCHANGED vvars /\ UNCHANGED clientVars /\ due' = due /\ bufferSize' = bufferSize
      /\ LineState' = LineState /\ Len(popped') = 1
  BY DEF PopBuffer, vvars, bufferVars, LineState, lineVars, owedVars
<1>4. Carried(TR)'
  BY <1>1, <1>2, <1>3 DEF Carried, Carries
<1>5. FrameValid' /\ InPassage(TR[1], s)'
  BY <1>1, <1>3, ParserWaits DEF FollowInv
<1>6. LineSound'
  BY <1>3 DEF FollowInv, LineSound
<1>7. QED
  BY <1>4, <1>5, <1>6 DEF FollowInv

\* Behind a passage, the parser is in step with the next one.
LEMMA NextInStep ==
  ASSUME FramesHaveFill, NEW t, NEW r, Carries(currentAudioBuffer, t), InStep(t.to), ~checking,
         NEW samples, Carries(samples, r), Succeeds(t.to, r.from), bufferSize \in Nat,
         NEW e, e = Reached(r, 0)
  PROVE  InStep(e)
<1>1. InStep(r.from)
  <2>1. CASE r.from = t.to
    BY <2>1
  <2>2. CASE r.from.whole = 0 /\ r.from.owed = NothingOwed
    BY <2>2 DEF InStep
  <2>3. QED
    BY <2>1, <2>2 DEF Succeeds
<1>2. Sound(r.from) /\ r.kind \in {"dark", "gap", "frame"} /\ Sound(r.to)
  BY DEF Carries, Passages
<1>3. CASE r.kind = "dark"
  <2>1. e.whole = 0 /\ e.owed = NothingOwed
    BY <1>2, <1>3, SoundIs DEF Carries, Reached
  <2>2. QED
    BY <2>1 DEF InStep
<1>4. CASE r.kind = "gap"
  <2>1. /\ e.at = 0 /\ e.owed = NothingOwed /\ e.whole = r.from.whole /\ e.packet = r.from.packet
        /\ r.from.at = 0
    BY <1>4 DEF Carries, Reached
  <2>2. QED
    BY <1>1, <2>1 DEF InStep
<1>5. CASE r.kind = "frame"
  <2>1. 0 < Rest(r.from) /\ r.from.at \in Nat /\ r.from.at + 0 = r.from.at
    BY <1>2, SoundIs DEF Rest
  <2>2. /\ e.packet = r.from.packet /\ e.at = r.from.at + 0
        /\ e.whole = r.from.whole /\ e.owed = r.from.owed
    BY <1>5, <2>1, ReachedIs
  <2>3. QED
    BY <1>1, <2>1, <2>2 DEF InStep
<1>6. QED
  BY <1>2, <1>3, <1>4, <1>5

LEMMA RecycleFollows ==
  ASSUME FramesHaveFill, BoundsInv, FollowInv, RecycleBuffer
  PROVE  FollowInv'
<1>1. PICK TR, s : Carried(TR) /\ InPassage(TR[1], s)
  BY DEF FollowInv
<1> DEFINE TT == Tail(TR)
           n == Len(sampleQueue)
<1>2. /\ sampleQueue \in Seq(Queued) /\ popped \in Seq(Queued) /\ Len(popped) = 1 /\ n \in Nat
  <2>1. sampleQueue \in Seq(Queued) /\ popped \in Seq(Queued)
    BY DEF BoundsInv, QueueTypes
  <2>2. \A S : \A q \in Seq(S) : Len(q) \in Nat
    OBVIOUS
  <2>3. Len(popped) = 1
    BY DEF RecycleBuffer, FollowInv, LineSound
  <2>4. QED
    BY <2>1, <2>2, <2>3
<1>3. /\ Len(Pending) = n + 1 /\ Pending[1] = popped[1]
      /\ \A k \in 1 .. n : Pending[k + 1] = sampleQueue[k]
  <2>1. \A S : \A q, r \in Seq(S) :
          /\ Len(q \o r) = Len(q) + Len(r)
          /\ \A k \in 1 .. Len(q) + Len(r) :
               (q \o r)[k] = IF k <= Len(q) THEN q[k] ELSE r[k - Len(q)]
    OBVIOUS
  <2>2. /\ Len(Pending) = 1 + n
        /\ \A k \in 1 .. 1 + n : Pending[k] = IF k <= 1 THEN popped[1] ELSE sampleQueue[k - 1]
    <3>1. Len(Pending) = 1 + n
      BY <1>2, <2>1 DEF Pending
    <3>2. \A k \in 1 .. 1 + n : Pending[k] = IF k <= 1 THEN popped[k] ELSE sampleQueue[k - 1]
      BY <1>2, <2>1 DEF Pending
    <3>3. \A k \in 1 .. 1 + n : k <= 1 => k = 1
      OBVIOUS
    <3>4. QED
      BY <3>1, <3>2, <3>3
  <2>3. 1 \in 1 .. 1 + n /\ \A k \in 1 .. n : k + 1 \in 1 .. 1 + n /\ ~(k + 1 <= 1) /\ (k + 1) - 1 = k
    BY <1>2
  <2> HIDE DEF n
  <2>4. QED
    BY <1>2, <2>2, <2>3
<1>4. Pending' = sampleQueue
  <2>1. \A S : \A q \in Seq(S) : <<>> \o q = q
    OBVIOUS
  <2>2. QED
    BY <1>2, <2>1 DEF Pending, RecycleBuffer
<1>5. /\ TT \in Seq(Passages) /\ Len(TT) = n + 1
      /\ \A k \in 1 .. n + 1 : TT[k] = TR[k + 1]
  <2>1. \A S : \A q \in Seq(S), m \in Nat : Len(q) = (m + 1) + 1 =>
          /\ Tail(q) \in Seq(S) /\ Len(Tail(q)) = m + 1
          /\ \A k \in 1 .. m + 1 : Tail(q)[k] = q[k + 1]
    OBVIOUS
  <2>2. TR \in Seq(Passages) /\ Len(TR) = (n + 1) + 1
    BY <1>1, <1>3 DEF Carried
  <2>3. QED
    BY <1>2, <2>1, <2>2
<1>6. /\ bufferSize' = bufferSize /\ LineState' = LineState /\ popped' = <<>>
      /\ currentAudioBuffer' = popped[1].samples /\ currentSample' = 0 /\ due' = popped[1].owed
      /\ UNCHANGED frameVars /\ UNCHANGED packetVars /\ UNCHANGED clientVars
      /\ ~checking /\ checking' = checking /\ currentSample >= bufferSize
  BY DEF RecycleBuffer, AddSamples, lineVars, owedVars, LineState, Idle
<1> HIDE DEF TT, n
<1>7. \A k \in 1 .. n + 1 :
        /\ Carries(Pending[k].samples, TR[k + 1]) /\ Pending[k].owed = TR[k + 1].to.owed
        /\ Succeeds(TR[k].to, TR[k + 1].from)
  BY <1>1, <1>3 DEF Carried
<1>8. ASSUME NEW k \in 1 .. n
      PROVE  /\ Carries(sampleQueue[k].samples, TT[k + 1]) /\ sampleQueue[k].owed = TT[k + 1].to.owed
             /\ Succeeds(TT[k].to, TT[k + 1].from)
  <2>1. k + 1 \in 1 .. n + 1 /\ k \in 1 .. n + 1
    BY <1>2
  <2>2. QED
    BY <1>3, <1>5, <1>7, <2>1
<1>9. Succeeds(TT[Len(TT)].to, LineState)
  <2>1. Len(TR) = (n + 1) + 1 /\ n + 1 \in 1 .. n + 1
    BY <1>1, <1>2, <1>3 DEF Carried
  <2>2. TT[Len(TT)] = TR[Len(TR)]
    BY <1>5, <2>1
  <2>3. QED
    BY <1>1, <2>2 DEF Carried
<1>10. Carried(TT)'
  <2>1. Len(Pending') = n
    BY <1>4 DEF n
  <2>2. QED
    BY <1>4, <1>5, <1>6, <1>8, <1>9, <2>1 DEF Carried, Carries
<1>11. 1 \in 1 .. n + 1 /\ TT[1] = TR[2]
  BY <1>2, <1>5
<1>12. /\ Carries(popped[1].samples, TT[1]) /\ popped[1].owed = TT[1].to.owed
       /\ Succeeds(TR[1].to, TT[1].from)
  BY <1>3, <1>7, <1>11
<1>13. bufferSize \in Nat /\ currentSample \in Nat /\ currentSample = bufferSize
  BY <1>6 DEF BoundsInv, BufferTypes
<1>14. InStep(TR[1].to)
  <2>1. Carries(currentAudioBuffer, TR[1]) /\ s = Reached(TR[1], currentSample) /\ InStep(s)
    BY <1>1 DEF InPassage
  <2>2. s = TR[1].to
    BY <1>13, <2>1, ReachedIs
  <2>3. QED
    BY <2>1, <2>2
<1>15. PICK e : e = Reached(TT[1], 0)
  OBVIOUS
<1>16. InStep(e)
  BY <1>1, <1>6, <1>12, <1>13, <1>14, <1>15, NextInStep DEF InPassage
<1>17. InPassage(TT[1], e)'
  <2>1. InStep(e)'
    BY <1>6, <1>16 DEF InStep, HoldsPart, Aligned, Checked, HasRead, Full, LaterMarkers,
                       AboutToHand, ValidateFillSamples, Handed, frameVars, packetVars, clientVars
  <2>2. Carries(currentAudioBuffer, TT[1])'
    BY <1>6, <1>12 DEF Carries
  <2>3. (e = Reached(TT[1], currentSample))'
    BY <1>6, <1>15 DEF Reached
  <2>4. QED
    BY <1>6, <1>12, <2>1, <2>2, <2>3 DEF InPassage
<1>18. FrameValid'
  BY <1>6 DEF FollowInv, FrameValid, Checked, frameVars, ValidateSyncMarkers, CheckSyncMarker
<1>19. LineSound'
  BY <1>6 DEF FollowInv, LineSound
<1>20. QED
  BY <1>10, <1>17, <1>18, <1>19 DEF FollowInv

-----------------------------------------------------------------------------
(* The steps of the line.                                                  *)

LEMMA PassageQueued ==
  ASSUME QueueTypes, NEW TR, Carried(TR), NEW samples, NEW owes,
         Queues(samples, owes), UNCHANGED bufferSize, UNCHANGED popped,
         NEW t, Carries(samples, t), owes = t.to.owed,
         Succeeds(TR[Len(TR)].to, t.from), Succeeds(t.to, LineState')
  PROVE  \E TT : Carried(TT)' /\ TT[1] = TR[1]
<1> DEFINE b == [samples |-> samples, owed |-> owes]
           TT == Append(TR, t)
           n == Len(Pending)
<1>1. Pending' = Append(Pending, b) /\ Pending \in Seq(Queued) /\ n \in Nat
  <2>1. \A S : \A q, r \in Seq(S) : q \o r \in Seq(S) /\ Len(q \o r) \in Nat
    OBVIOUS
  <2>2. \A q, r \in Seq(Queued) : \A x : q \o Append(r, x) = Append(q \o r, x)
    OBVIOUS
  <2>3. sampleQueue' = Append(sampleQueue, b)
    BY DEF Queues
  <2>4. QED
    BY <2>1, <2>2, <2>3 DEF Pending, QueueTypes
<1>2. /\ TR \in Seq(Passages) /\ Len(TR) = n + 1 /\ t \in Passages
      /\ \A k \in 1 .. n :
           /\ Carries(Pending[k].samples, TR[k + 1]) /\ Pending[k].owed = TR[k + 1].to.owed
           /\ Succeeds(TR[k].to, TR[k + 1].from)
  BY DEF Carried, Carries
<1>3. /\ TT \in Seq(Passages) /\ Len(TT) = (n + 1) + 1
      /\ \A k \in 1 .. n + 1 : TT[k] = TR[k]
      /\ TT[(n + 1) + 1] = t
  <2>1. \A S : \A q \in Seq(S), x \in S :
          /\ Append(q, x) \in Seq(S) /\ Len(Append(q, x)) = Len(q) + 1
          /\ \A k \in 1 .. Len(q) : Append(q, x)[k] = q[k]
          /\ Append(q, x)[Len(q) + 1] = x
    OBVIOUS
  <2>2. QED
    BY <1>2, <2>1
<1>4. /\ Len(Pending') = n + 1 /\ Pending'[n + 1].samples = samples /\ Pending'[n + 1].owed = owes
      /\ \A k \in 1 .. n : Pending'[k] = Pending[k]
  <2>1. \A S : \A q \in Seq(S) : \A x :
          /\ Len(Append(q, x)) = Len(q) + 1
          /\ \A k \in 1 .. Len(q) : Append(q, x)[k] = q[k]
          /\ Append(q, x)[Len(q) + 1] = x
    OBVIOUS
  <2>2. /\ Len(Append(Pending, b)) = n + 1 /\ Append(Pending, b)[n + 1] = b
        /\ \A k \in 1 .. n : Append(Pending, b)[k] = Pending[k]
    BY <1>1, <2>1
  <2>3. QED
    BY <1>1, <2>2
<1> HIDE DEF TT, n, b
<1>5. ASSUME NEW k \in 1 .. n + 1
      PROVE  /\ Carries(Pending'[k].samples, TT[k + 1]) /\ Pending'[k].owed = TT[k + 1].to.owed
             /\ Succeeds(TT[k].to, TT[k + 1].from)
  <2>1. CASE k = n + 1
    BY <1>1, <1>2, <1>3, <1>4, <2>1
  <2>2. CASE k # n + 1
    <3>1. k \in 1 .. n /\ k + 1 \in 1 .. n + 1
      BY <1>1, <2>2
    <3>2. QED
      BY <1>2, <1>3, <1>4, <3>1
  <2>3. QED
    BY <2>1, <2>2
<1>6. Len(TT) \in Nat /\ TT[Len(TT)] = t /\ TT[1] = TR[1]
  BY <1>1, <1>3
<1>7. Carried(TT)'
  <2>1. Succeeds(TT[Len(TT)].to, LineState)'
    BY <1>6 DEF Succeeds, LineState
  <2>2. \A k \in 1 .. n + 1 : Carries(Pending[k].samples, TT[k + 1])'
    BY <1>5 DEF Carries
  <2>3. QED
    BY <1>3, <1>4, <1>5, <2>1, <2>2 DEF Carried
<1>8. QED
  BY <1>6, <1>7

LEMMA LineFollows ==
  ASSUME FramesHaveFill, BoundsInv, FollowInv, audioDeviceIOCallback
  PROVE  FollowInv'
<1>1. PICK TR, s : Carried(TR) /\ InPassage(TR[1], s)
  BY DEF FollowInv
<1> DEFINE d == packet.editUnitDuration
<1>2. /\ bufferSize \in Nat \ {0} /\ bufferSize \in BufferSizes /\ at \in Nat /\ packet \in Sent
      /\ at < d /\ d \in Nat /\ whole \in 0 .. 2 /\ owed \in Owes /\ (owed # NothingOwed => whole = 2)
      /\ QueueTypes /\ LineState \in LineStates /\ Sound(LineState)
  BY DurationIs DEF BoundsInv, LineTypes, BufferTypes, FollowInv, LineSound, LineState, LineStates, Sound
<1>3. UNCHANGED vvars /\ UNCHANGED clientVars /\ due' = due /\ popped' = popped /\ bufferSize' = bufferSize
  BY DEF audioDeviceIOCallback, vvars, bufferVars
<1>4. FrameValid' /\ InPassage(TR[1], s)'
  BY <1>1, <1>3, ParserWaits DEF FollowInv
<1>5. PICK S, T : S = LineState /\ T = LineState'
  OBVIOUS
<1>6. /\ S = [packet |-> packet, at |-> at, whole |-> whole, owed |-> owed]
      /\ T = [packet |-> packet', at |-> at', whole |-> whole', owed |-> owed']
      /\ S \in LineStates /\ Sound(S)
  BY <1>2, <1>5 DEF LineState
\* What follows of a way for the line and of a buffer that is queued.
<1>7. ASSUME T \in LineStates, Sound(T), NEW TT, Carried(TT)', TT[1] = TR[1]
      PROVE  FollowInv'
  <2>1. LineSound'
    BY <1>3, <1>5, <1>7 DEF FollowInv, LineSound, LineState
  <2>2. QED
    BY <1>4, <1>7, <2>1 DEF FollowInv
<1>8. ASSUME T \in LineStates, Sound(T), NEW samples, NEW owes, Queues(samples, owes),
             NEW t, Carries(samples, t), t.from = S, t.to = T, owes = owed'
      PROVE  FollowInv'
  <2>1. Succeeds(TR[Len(TR)].to, t.from)
    BY <1>1, <1>5, <1>8 DEF Carried
  <2>2. Succeeds(t.to, LineState') /\ owes = t.to.owed
    BY <1>5, <1>6, <1>8 DEF Succeeds
  <2>3. \E TT : Carried(TT)' /\ TT[1] = TR[1]
    BY <1>1, <1>2, <1>3, <1>8, <2>1, <2>2, PassageQueued
  <2>4. QED
    BY <1>7, <1>8, <2>3
<1>9. ASSUME packet' \in Sent, at' \in Nat, at' < packet'.editUnitDuration, whole' \in 0 .. 2,
             owed' \in Owes, owed' # NothingOwed => whole' = 2
      PROVE  T \in LineStates /\ Sound(T)
  BY <1>6, <1>9 DEF LineStates, Sound
\* Along the line's frames.
<1>10. ASSUME NEW next \in Sent
       PROVE  \A i \in 0 .. bufferSize - 1 :
                LineSamples(next)[i] = IF i < Rest(S) THEN SampleAt(S.packet, S.at + i)
                                       ELSE SampleAt(next, i - Rest(S))
  <2>1. S.packet = packet /\ S.at = at /\ Rest(S) = d - at
    BY <1>6 DEF Rest
  <2>2. ASSUME NEW i \in 0 .. bufferSize - 1
        PROVE  (at + i < d <=> i < d - at) /\ at + i - d = i - (d - at)
    BY <1>2
  <2>3. QED
    BY <2>1, <2>2 DEF LineSamples
<1>11. CASE HearFrame
  <2>1. /\ at + bufferSize < d /\ at' = at + bufferSize /\ packet' = packet
        /\ whole' = whole /\ owed' = owed /\ Queues(LineSamples(packet), owed)
    BY <1>11 DEF HearFrame, owedVars
  <2>2. T \in LineStates /\ Sound(T)
    BY <1>2, <1>9, <2>1
  <2>3. PICK t : t = [kind |-> "frame", from |-> S, to |-> T]
    OBVIOUS
  <2>4. Carries(LineSamples(packet), t)
    <3>1. t \in Passages /\ t.from = S /\ t.to = T /\ t.kind = "frame"
      BY <1>6, <2>2, <2>3 DEF Passages
    <3>2. T = [S EXCEPT !.at = @ + bufferSize] /\ T.packet = packet
      BY <1>6, <2>1
    <3>3. bufferSize < Rest(S)
      BY <1>2, <1>6, <2>1 DEF Rest
    <3>4. \A i \in 0 .. bufferSize - 1 :
            LineSamples(packet)[i] = IF i < Rest(S) THEN SampleAt(S.packet, S.at + i)
                                     ELSE SampleAt(T.packet, i - Rest(S))
      BY <1>2, <1>10, <3>2
    <3>5. QED
      BY <1>6, <2>2, <3>1, <3>2, <3>3, <3>4 DEF Carries
  <2>5. t.from = S /\ t.to = T
    BY <2>3
  <2>6. QED
    BY <1>8, <2>1, <2>2, <2>4, <2>5
<1>12. CASE HearSilence
  <2>1. /\ packet' = packet /\ at' = at /\ owed' = NothingOwed
        /\ whole' = (IF at = 0 THEN whole ELSE 0) /\ Queues(Zeros(bufferSize), NothingOwed)
    BY <1>12 DEF HearSilence
  <2>2. T \in LineStates /\ Sound(T)
    BY <1>2, <1>9, <2>1 DEF Owes
  <2>3. PICK t : t = [kind |-> IF at = 0 THEN "gap" ELSE "dark", from |-> S, to |-> T]
    OBVIOUS
  <2>4. t.from = S /\ t.to = T /\ t.kind = (IF at = 0 THEN "gap" ELSE "dark")
    BY <2>3
  <2>5. Carries(Zeros(bufferSize), t)
    <3>1. t \in Passages
      BY <1>6, <2>2, <2>3 DEF Passages
    <3>2. /\ T.whole = (IF at = 0 THEN whole ELSE 0) /\ T.owed = NothingOwed /\ T.at = at
          /\ T.packet = S.packet /\ S.at = at /\ S.whole = whole
      BY <1>6, <2>1
    <3>3. \A i \in 0 .. bufferSize - 1 : Zeros(bufferSize)[i] = 0
      BY DEF Zeros
    <3>4. QED
      BY <1>6, <2>2, <2>4, <3>1, <3>2, <3>3 DEF Carries
  <2>6. QED
    BY <1>8, <2>1, <2>2, <2>4, <2>5
<1>13. ASSUME NEW next \in NextPackets, HearEndOfFrame(next) \/ HearDropout(next) \/ LoseSamples(next)
       PROVE  FollowInv'
  <2>1. next \in Sent /\ next \in OnLine
    BY DEF NextPackets, OnLine
  <2>2. next.editUnitDuration \in Nat /\ next.editUnitDuration > bufferSize
    BY <2>1, DurationIs DEF OnLine
  <2>3. ASSUME Advance(next)
        PROVE  packet' \in Sent /\ at' \in Nat /\ at' < packet'.editUnitDuration
    <3>1. CASE at + bufferSize < d
      BY <1>2, <2>3, <3>1 DEF Advance
    <3>2. CASE ~(at + bufferSize < d)
      BY <1>2, <2>1, <2>2, <2>3, <3>2 DEF Advance
    <3>3. QED
      BY <3>1, <3>2
  <2>4. CASE HearEndOfFrame(next)
    <3>1. /\ at + bufferSize >= d /\ packet' = next /\ at' = at + bufferSize - d
          /\ owed' = (IF whole = 2 THEN packet ELSE NothingOwed)
          /\ whole' = (IF whole = 2 THEN 2 ELSE whole + 1)
          /\ Queues(LineSamples(next), owed')
      <4>1. HasFill(packet)
        BY <1>2 DEF FramesHaveFill
      <4>2. QED
        BY <2>4, <4>1 DEF HearEndOfFrame
    <3>2. whole' = IF whole = 0 THEN 1 ELSE 2
      BY <1>2, <3>1
    <3>3. T \in LineStates /\ Sound(T)
      <4>1. at' \in Nat /\ at' < next.editUnitDuration
        BY <1>2, <2>2, <3>1
      <4>2. whole' \in 0 .. 2 /\ owed' \in Owes /\ (owed' # NothingOwed => whole' = 2)
        BY <1>2, <3>1, <3>2 DEF Owes
      <4>3. QED
        BY <1>9, <2>1, <3>1, <4>1, <4>2
    <3>4. PICK t : t = [kind |-> "frame", from |-> S, to |-> T]
      OBVIOUS
    <3>5. t.from = S /\ t.to = T /\ t.kind = "frame"
      BY <3>4
    <3>6. Carries(LineSamples(next), t)
      <4>1. t \in Passages
        BY <1>6, <3>3, <3>4 DEF Passages
      <4>2. /\ T.packet = next /\ T.at = at + bufferSize - d /\ T.whole = whole' /\ T.owed = owed'
            /\ S.packet = packet /\ S.at = at /\ S.whole = whole
        BY <1>6, <3>1
      <4>3. ~(bufferSize < Rest(S)) /\ T.at = bufferSize - Rest(S)
        BY <1>2, <3>1, <4>2 DEF Rest
      <4>4. \A i \in 0 .. bufferSize - 1 :
              LineSamples(next)[i] = IF i < Rest(S) THEN SampleAt(S.packet, S.at + i)
                                     ELSE SampleAt(T.packet, i - Rest(S))
        BY <1>10, <2>1, <4>2
      <4>5. /\ T.whole = (IF S.whole = 0 THEN 1 ELSE 2)
            /\ T.owed = (IF S.whole = 2 THEN S.packet ELSE NothingOwed)
        BY <3>1, <3>2, <4>2
      <4>6. QED
        BY <1>6, <3>3, <3>5, <4>1, <4>3, <4>4, <4>5 DEF Carries
    <3>7. QED
      BY <1>8, <3>1, <3>3, <3>5, <3>6
  <2>5. CASE HearDropout(next)
    <3>1. Advance(next) /\ whole' = 0 /\ owed' = NothingOwed
      BY <2>5 DEF HearDropout
    <3>2. PICK samples : Queues(samples, NothingOwed)
      BY <2>5 DEF HearDropout
    <3>3. T \in LineStates /\ Sound(T)
      BY <1>9, <2>3, <3>1 DEF Owes
    <3>4. PICK t : t = [kind |-> "dark", from |-> S, to |-> T]
      OBVIOUS
    <3>5. t.from = S /\ t.to = T /\ t.kind = "dark" /\ t \in Passages
      BY <1>6, <3>3, <3>4 DEF Passages
    <3>6. T.whole = 0
      BY <1>6, <3>1
    <3>7. Carries(samples, t)
      BY <1>6, <3>3, <3>5, <3>6 DEF Carries
    <3>8. QED
      BY <1>8, <3>1, <3>2, <3>3, <3>5, <3>7
  <2>6. CASE LoseSamples(next)
    <3>1. Advance(next) /\ whole' = 0 /\ owed' = NothingOwed /\ sampleQueue' = sampleQueue
      BY <2>6 DEF LoseSamples
    <3>2. T \in LineStates /\ Sound(T)
      BY <1>9, <2>3, <3>1 DEF Owes
    <3>3. T.whole = 0 /\ T.owed = NothingOwed
      BY <1>6, <3>1
    <3>4. Succeeds(TR[Len(TR)].to, LineState)'
      BY <1>5, <3>3 DEF Succeeds, LineState
    <3>5. Carried(TR)'
      BY <1>1, <1>3, <3>1, <3>4 DEF Carried, Carries, Pending
    <3>6. QED
      BY <1>7, <3>2, <3>5
  <2>7. QED
    BY <1>13, <2>4, <2>5, <2>6
<1>14. QED
  BY <1>11, <1>12, <1>13 DEF audioDeviceIOCallback

LEMMA InitFollows == ClientInit => FollowInv
<1> SUFFICES ASSUME ClientInit PROVE FollowInv
  OBVIOUS
<1>1. /\ bufferSize \in BufferSizes /\ bufferSize \in Nat /\ currentSample = bufferSize
      /\ offsetIntoFrame = 0 /\ currentFrameDuration = InitialDuration
      /\ sampleQueue = <<>> /\ popped = <<>> /\ packet \in Sent /\ whole = 0
      /\ owed = NothingOwed /\ due = NothingOwed /\ at < packet.editUnitDuration
  BY FrameValidatorAssumption DEF ClientInit, Init, OnLine
<1>2. /\ at \in Nat /\ at <= payloadDuration /\ payloadDuration \in Nat /\ payloadDuration > 40
      /\ InitialDuration \in Nat /\ InitialDuration > payloadDuration
  BY SEClientAssumption, FrameValidatorAssumption, PayloadIs DEF ClientInit
<1>3. LineState \in LineStates /\ Sound(LineState)
  BY <1>1, <1>2 DEF LineState, LineStates, Sound, Owes
<1>4. PICK s : s = LineState
  OBVIOUS
<1>5. s \in LineStates /\ Sound(s) /\ s.whole = 0 /\ s.owed = NothingOwed
  BY <1>1, <1>3, <1>4 DEF LineState
<1> DEFINE t == [kind |-> "dark", from |-> s, to |-> s]
           TR == <<t>>
<1>6. t \in Passages /\ t.from = s /\ t.to = s /\ t.kind = "dark"
  BY <1>5 DEF Passages
<1> HIDE DEF t
<1>7. TR \in Seq(Passages) /\ Len(TR) = 1 /\ TR[1] = t
  BY <1>6
<1>8. Len(Pending) = 0
  BY <1>1 DEF Pending
<1>9. Carried(TR)
  BY <1>4, <1>6, <1>7, <1>8 DEF Carried, Succeeds
<1>10. InPassage(TR[1], s)
  <2>1. Carries(currentAudioBuffer, t) /\ s = Reached(t, currentSample)
    BY <1>5, <1>6 DEF Carries, Reached
  <2>2. InStep(s)
    BY <1>5 DEF InStep
  <2>3. QED
    BY <1>1, <1>5, <1>6, <1>7, <2>1, <2>2 DEF InPassage
<1>11. FrameValid
  BY <1>1, <1>2 DEF FrameValid, Checked
<1>12. LineSound
  BY <1>1, <1>3 DEF LineSound
<1>13. QED
  BY <1>9, <1>10, <1>11, <1>12 DEF FollowInv

LEMMA StepFollows ==
  ASSUME FramesHaveFill, BuffersAreShort,
         BoundsInv, DurationsAreSent, FewLengths, FollowInv, [Next]_vars
  PROVE  FollowInv'
<1>1. CASE Next /\ ~Undefined
  BY <1>1, LineFollows, PopFollows, RecycleFollows, ParseFollows DEF Next
<1>2. CASE UNCHANGED vars
  <2>1. /\ UNCHANGED vvars /\ UNCHANGED clientVars /\ due' = due /\ bufferSize' = bufferSize
        /\ Pending' = Pending /\ popped' = popped /\ LineState' = LineState
    BY <1>2 DEF vars, vvars, bufferVars, lineVars, owedVars, Pending, LineState
  <2>2. PICK TR, s : Carried(TR) /\ InPassage(TR[1], s)
    BY DEF FollowInv
  <2>3. Carried(TR)'
    BY <2>1, <2>2 DEF Carried, Carries
  <2>4. FrameValid' /\ InPassage(TR[1], s)'
    BY <2>1, <2>2, ParserWaits DEF FollowInv
  <2>5. LineSound'
    BY <2>1 DEF FollowInv, LineSound
  <2>6. QED
    BY <2>3, <2>4, <2>5 DEF FollowInv
<1>3. QED
  BY <1>1, <1>2 DEF Undefined

\* Where frames are longer than a payload and than the buffers, one that comes whole behind a
\* whole one is handed over, with the packet it was written from, once its samples have been
\* parsed: however ParseFrames takes them from the buffers, and whatever HandlePayload and
\* CheckOverlappingFramesAndShuffle made of the torn frames before.
THEOREM TheSignalIsFollowed ==
  Spec /\ FramesHaveFill /\ BuffersAreShort /\ []DurationsAreSent /\ FewLengths => []FollowsTheSignal
<1> SUFFICES ASSUME FramesHaveFill, BuffersAreShort, FewLengths
             PROVE  Spec /\ []DurationsAreSent => []FollowsTheSignal
  OBVIOUS
<1>1. ClientInit => BoundsInv /\ FollowInv
  BY InitBounds, InitFollows
<1>2. BoundsInv /\ FollowInv /\ DurationsAreSent /\ [Next]_vars => (BoundsInv /\ FollowInv)'
  BY StepBounds, StepFollows
<1>3. BoundsInv /\ FollowInv => FollowsTheSignal
  BY FollowsFromInv
<1>4. QED
  BY <1>1, <1>2, <1>3, PTL DEF Spec

\* So no whole frame is missed behind a whole one, where no glitch ends within a payload.
THEOREM WholeFramesAreHandedOver ==
  Spec /\ FramesHaveFill /\ BuffersAreShort /\ FewLengths /\ ~Splices /\ 0 \notin DropoutsAt =>
    []FollowsTheSignal
<1>1. QED
  BY DurationsStaySent, TheSignalIsFollowed, PTL
=============================================================================
