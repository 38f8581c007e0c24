SPECIFICATION FairSpec
CONSTANTS
  a = a
  b = b
  noCursor = noCursor
  badCursor = badCursor
  Cursor = {a, b}
  Huge = {}
  NoCursor = noCursor
  BadCursor = badCursor
  Page <- MCPage
  MAX_PAGES = 2
  MAX_TOOLS = 2
  QueueMax = 2
  PipeMax = 1
  MaxLines = 3
INVARIANTS
  TypeOK
  UnmarkedIsWhole
  MarkedIsCut
  AnswersInOrder
PROPERTY
  CaptureReturns
