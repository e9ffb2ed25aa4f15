SPECIFICATION Spec
CONSTANTS
  Null = Null
  c1 = c1
  c2 = c2
  Conns = {c1}
  Files <- OtherFiles
  CPL <- TestCPL
  AssetMap <- TestAssetMap
  SampleRate = 48
  Byte = 128
  Items <- TestItems
  Unreliable = {"f3"}
  MaxCPLs = 2
  Requests <- FewRequests
  Lists <- TestLists
  UnitsPerRequest = 3
  Texts <- PlainText
  WellFormed <- PlainText
  PieceLengths = {}
  MaxGenerations = 1
INVARIANTS ServesTheLoadedShow
CHECK_DEADLOCK FALSE
