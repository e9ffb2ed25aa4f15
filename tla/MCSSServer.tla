----------------------------- MODULE MCSSServer -----------------------------
(***************************************************************************)
(* Instances of SSServer for TLC.  The feature has three reels: the data   *)
(* of the first goes on behind the reel, the second has none, the third's  *)
(* file is too short, and not always there.  The trailer has one reel,     *)
(* whose data have no coding, the slides have no duration, and the text is *)
(* no CPL.                                                                 *)
(***************************************************************************)
EXTENDS SSServer, TLC

CONSTANTS c1, c2

Asset(type, id, fps, duration) ==
  [type |-> type, id |-> id, fps |-> fps, duration |-> duration,
   coding |-> IF type = "AuxData" /\ id # "a4" THEN PackKey(7) ELSE <<>>]

TestCPL ==
  [feature |-> <<
     <<Asset("MainPicture", "p1", 48, 2), Asset("MainSound", "s1", 48, 2), Asset("AuxData", "a1", 48, 2)>>,
     <<Asset("MainPicture", "p2", 24, 1), Asset("MainSound", "s2", 24, 1)>>,
     <<Asset("MainPicture", "p3", 24, 2), Asset("AuxData", "a3", 24, 2)>> >>,
   trailer |-> <<
     <<Asset("MainPicture", "p4", 24, 1), Asset("AuxData", "a4", 24, 1)>> >>,
   slides |-> << <<Asset("MainPicture", "p5", 24, Null)>> >>]

FewFiles == {"feature", "slides", "text"}
OtherFiles == {"feature", "trailer", "text"}
TestAssetMap == [a1 |-> "f1", a3 |-> "f3", a4 |-> "f4"]
TestItems == [f1 |-> << <<11>>, <<>>, <<13, 0, 13>> >>, f3 |-> << <<31>> >>, f4 |-> << <<41, 0>> >>]
TestLists == {<<"text">>}

Ask(start, count) == [form |-> "wellFormed", start |-> start, count |-> count]
TestRequests == {Ask(0, 4), Ask(5, 2), [form |-> "unacceptable", start |-> 0, count |-> 1]}
FewRequests == {Ask(0, 2)}

\* A method, a uri and a version; a header that goes on in a second line, and
\* one that begins so.
Line == <<"letter", "space", "slash", "space", "H", "T", "T", "P", "slash", "digit">>
Version == <<"dot", "digit">>
Newline == <<"cr", "lf">>
Header == <<"H", "colon", "space", "digit">>
Folded == <<"space", "high">>
TestWellFormed == {Line \o Version \o Newline \o Header \o Newline \o Folded \o Newline \o Newline}
TestTexts == TestWellFormed \union {Line \o Version \o Newline \o Folded \o Newline \o Newline}
PlainText == {Line \o Version \o Newline \o Newline}

ASSUME TextsAssumption == KnownInOnePiece
ASSUME CPLsAssumption == PicturesAreRegular /\ DataAreRegular
ASSUME NumbersAssumption == NumbersFit
=============================================================================
