SPECIFICATION FairSpec
CONSTANTS
  a = a
  b = b
  noCursor = noCursor
  badCursor = badCursor
  Cursor = {a, b}
  Huge = {a}
  NoCursor = noCursor
  BadCursor = badCursor
  Page <- MCHugePage
  MAX_PAGES = 2
  MAX_TOOLS = 2
  QueueMax = 2
  PipeMax = 1
  MaxLines = 2
PROPERTY
  CaptureReturns
