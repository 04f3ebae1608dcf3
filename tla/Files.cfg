\* Batches that may be missing or short, with every limit; every file of up to
\* 2 lines of up to 4 characters; every packet.
SPECIFICATION Spec
CONSTANTS
  Missing = Missing
  Garbage = Garbage
  Width = 256
  FileSizes = {1, 2}
  BatchItems = 2
  Batches = 4
  Limits <- MCLimits
  NoFile = NoFile
  Delim = Delim
  Hash = Hash
  Chars = {p, v}
  MaxLength = 4
  MaxLines = 2
  Blank = Blank
  Nothing = Nothing
  SizeCells = 2
  HeaderCells = 3
  Sizes <- MCSizes
  MaxCtxts = 3
INVARIANTS
  SetsAreAPrefix
  FirstSettingHolds
  FillsItsBuffer
  RoundTrip
PROPERTIES
  LimitIsReached
CHECK_DEADLOCK FALSE
