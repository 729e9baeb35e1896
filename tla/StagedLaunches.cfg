SPECIFICATION WSpec
CONSTANTS
  MantBits = 2  ExpBits = 3  HalfFrac = 5
  E4Mant = 1  E4Exp = 2  E4Frac = 2  AccBits = 4
  D27Top = 1  D27Range = 4
  Rows = 4
  Worker = {w1, w2}
  None = None  Nothing = Nothing
  Launches <- Owned
  HmmaLow = 5  Room = 9  Block = 2
  Limit = 128  Slope = 2  Middle = 16  Shift = 32
  Jobs <- TwinJobs
INVARIANTS FixedOrderSum NoSpuriousThrow 
CHECK_DEADLOCK FALSE
