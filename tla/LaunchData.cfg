SPECIFICATION LDSpec
CONSTANTS
  Member = {ma, mb, mc}
  Worker = {w1, w2}
  Slots = 2
  MaxWant = 2
  MaxClock = 8
  None = None
  Main = main
  Hand = {w1, w2}
  Slot = {ma, mb, mc}
  Category = {0, 1}
  Kind <- MCKind
  MaxCalls = 2
  MaxRequests = 2
  ByteBits = 2
  ValueBits = 4
  WindowBytes = 3
  BlockSizes = {2, 4}
  MaxCount = 4
  Expected = 4
  Files <- MCFiles
  Rows = 2
  TileEps = 2
  TileSlots = 2
  Templates <- MCTemplates
  Layouts <- MCLayouts
  Images <- MCImages
SYMMETRY Alike
INVARIANTS HoldsMostRecent ReturnedIsExact EdgeFollowsLive EntriesApart DecodesItsBits LayoutsAgree WindowsCover
PROPERTIES ReportsTruth
CHECK_DEADLOCK FALSE
