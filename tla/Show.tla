-------------------------------- MODULE Show --------------------------------
(***************************************************************************)
(* The Show: the timeline that CPLParser and Show make of the CPL files,   *)
(* and what the servers look up in it.  A show is the sequence of its      *)
(* reels and its number of frames; an asset is given its first frame when  *)
(* its reel is added.  A rate is a whole number of frames a second; the    *)
(* coding of an asset is its UL, or no text of one.                        *)
(***************************************************************************)
EXTENDS Integers, Sequences, SequencesExt

CONSTANTS
  Files,      \* the paths that may be given to a ShowManager
  CPL,        \* CPL[f]: the reels of the CPL file f, each the sequence of its assets
  AssetMap,   \* AssetMap[i]: the path of the asset i in its directory's ASSETMAP.xml
  SampleRate, \* sampleRate_
  Null        \* a null pointer, an element a file does not have

NoPath == "no path"
NoId == "no id"

(* IsFileCPL, MapAssets and UpdateAssetPathInfo of CPLParser.              *)
IsFileCPL(f) == f \in DOMAIN CPL

MapAsset(a) ==
  [type |-> a.type, id |-> a.id, fps |-> a.fps, coding |-> a.coding,
   duration |-> IF a.duration = Null THEN 0 ELSE a.duration,
   path |-> IF a.id \in DOMAIN AssetMap THEN AssetMap[a.id] ELSE NoPath]

Parse(f) == [r \in DOMAIN CPL[f] |-> [a \in DOMAIN CPL[f][r] |-> MapAsset(CPL[f][r][a])]]

(* AddCPLToEndOfTimeline.  All assets of a reel start with the reel; its   *)
(* pictures make the show longer.                                          *)
EmptyShow == [reels |-> <<>>, frames |-> 0]

\* Mutated: sounds make the show longer, too.
PictureAndSoundFrames(reel) ==
  FoldLeft(LAMBDA n, a : IF a.type # "AuxData" THEN n + a.duration ELSE n, 0, reel)

LongerBy(frames, a) == IF a.type = "MainPicture" THEN frames + a.duration ELSE frames

PictureFrames(reel) ==
  LET after[i \in 0 .. Len(reel)] == IF i = 0 THEN 0 ELSE LongerBy(after[i - 1], reel[i])
  IN  after[Len(reel)]

StartingAt(a, frame) ==
  [type |-> a.type, id |-> a.id, fps |-> a.fps, coding |-> a.coding,
   duration |-> a.duration, path |-> a.path, startFrame |-> frame]

AddReel(s, reel) ==
  [reels |-> Append(s.reels, [i \in DOMAIN reel |-> StartingAt(reel[i], s.frames)]),
   frames |-> s.frames + PictureFrames(reel)]

AddCPLToEndOfTimeline(s, reels) ==
  LET after[i \in 0 .. Len(reels)] == IF i = 0 THEN s ELSE AddReel(after[i - 1], reels[i])
  IN  after[Len(reels)]

\* A file that is no CPL is passed over.
AddFile(s, f) == IF IsFileCPL(f) THEN AddCPLToEndOfTimeline(s, Parse(f)) ELSE s

ShowOf(files) ==
  LET after[i \in 0 .. Len(files)] == IF i = 0 THEN EmptyShow ELSE AddFile(after[i - 1], files[i])
  IN  after[Len(files)]

(* The elements the CPLs have for assets, the assets, and the shows.       *)
Elements == UNION {UNION {ToSet(CPL[f][r]) : r \in DOMAIN CPL[f]} : f \in DOMAIN CPL}

Mapped == {MapAsset(a) : a \in Elements}

Timed ==
  UNION {[type : {a.type}, id : {a.id}, fps : {a.fps}, coding : {a.coding},
          duration : {a.duration}, path : {a.path}, startFrame : Nat] : a \in Mapped}

Shows == [reels : Seq(Seq(Timed)), frames : Nat]

ASSUME ShowAssumption ==
  /\ SampleRate \in Nat
  /\ \A f \in DOMAIN CPL : CPL[f] \in Seq(Seq(Elements))
  /\ Null \notin Shows

(* The places of the assets in the timeline, a reel and an index in it,    *)
(* which frames an asset covers, and the assets the lookups find.          *)
EndFrame(a) == IF a.duration # 0 THEN a.startFrame + a.duration - 1 ELSE 0
Covers(a, frame) == a.startFrame <= frame /\ frame <= EndFrame(a)

Places(s) == UNION {{r} \X DOMAIN s.reels[r] : r \in DOMAIN s.reels}
AssetIn(s, place) == s.reels[place[1]][place[2]]

PlacesOf(s, type) == {p \in Places(s) : AssetIn(s, p).type = type}
PlacesAt(s, frame, type) == {p \in PlacesOf(s, type) : Covers(AssetIn(s, p), frame)}

Before(p, q) == p[1] < q[1] \/ (p[1] = q[1] /\ p[2] <= q[2])
FirstOf(places) == CHOOSE p \in places : \A q \in places : Before(p, q)
LastOf(places) == CHOOSE p \in places : \A q \in places : Before(q, p)

LongestFrameLength(s) ==
  Max({1} \union {SampleRate \div AssetIn(s, p).fps : p \in Places(s)})

(* GetAssetFrameInfo: the first reel with a picture at the frame; then its *)
(* last picture there, and the last sound and data after the first one.    *)
NoFrameInfo == [found |-> FALSE, duration |-> 0, rate |-> <<0, 0>>,
                picture |-> NoId, sound |-> NoId, coding |-> <<>>]

FrameInfo(s, frame) ==
  LET shown == PlacesAt(s, frame, "MainPicture")
      first == FirstOf(shown)
      picture == AssetIn(s, LastOf({p \in shown : p[1] = first[1]}))
      After(type) == {p \in PlacesOf(s, type) : p[1] = first[1] /\ Before(first, p)}
      Latest(type) == AssetIn(s, LastOf(After(type)))
  IN IF shown = {} THEN NoFrameInfo
     ELSE [found |-> TRUE, duration |-> SampleRate \div picture.fps, rate |-> <<picture.fps, 1>>,
           picture |-> picture.id,
           sound |-> IF After("MainSound") = {} THEN NoId ELSE Latest("MainSound").id,
           coding |-> IF After("AuxData") = {} THEN <<>> ELSE Latest("AuxData").coding]

-----------------------------------------------------------------------------
(* CPLs as the standard has them: each reel has one picture; it has at     *)
(* most one file of data, listed behind the picture and not longer.        *)
HasOnePicture(reel) ==
  /\ \A i \in DOMAIN reel : reel[i].duration \in Nat /\ reel[i].fps \in 1 .. SampleRate
  /\ \E p \in DOMAIN reel : \A i \in DOMAIN reel : reel[i].type = "MainPicture" <=> i = p

HasFittingData(reel) ==
  \A i, j \in DOMAIN reel :
    reel[j].type = "AuxData" =>
      /\ reel[i].type = "AuxData" => i = j
      /\ reel[i].type = "MainPicture" => i < j /\ reel[j].duration \in 1 .. reel[i].duration

PicturesAreRegular == \A f \in DOMAIN CPL : \A r \in DOMAIN CPL[f] : HasOnePicture(Parse(f)[r])
DataAreRegular == \A f \in DOMAIN CPL : \A r \in DOMAIN CPL[f] : HasFittingData(Parse(f)[r])

=============================================================================
