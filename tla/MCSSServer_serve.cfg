SPECIFICATION FairSpec
CONSTANTS
  Null = Null
  c1 = c1
  c2 = c2
  Conns = {c1, c2}
  Files <- FewFiles
  CPL <- TestCPL
  AssetMap <- TestAssetMap
  SampleRate = 48
  Byte = 128
  Items <- TestItems
  Unreliable = {"f3"}
  MaxCPLs = 2
  Requests <- TestRequests
  Lists <- TestLists
  UnitsPerRequest = 3
  Texts <- TestTexts
  WellFormed <- TestWellFormed
  PieceLengths = {13}
  MaxGenerations = 1
INVARIANTS ConnectionsAreLive EveryFrameIsShown RequestsAreRead AnswersWithTheShow AnswersInFull
PROPERTIES StopEnds
CHECK_DEADLOCK FALSE
