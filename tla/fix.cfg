SPECIFICATION FairSpec
CONSTANTS
  f1 = f1
  f2 = f2
  q1 = q1
  q2 = q2
  q3 = q3
  none = none
  bad = bad
  torn = torn
  Fixer = {f1, f2}
  Path <- MCPath
  List <- MCList
  Reached <- MCReached
  Entry <- MCEntry
  Unsafe <- MCUnsafe
  Document <- MCDocument
  Unparsable = bad
  Torn = torn
  Absent = none
  Unreadable = {q2}
  Mode <- MCOneMode
  Masked <- MCOneMasked
  MaxRuns = 2
  MaxEdits = 1
  MaxFaults = 1
INVARIANTS
  TypeOK
  NeverTornAlone
  LastSaveRecoverable
  NoGrantLeft
PROPERTIES
  OnlyPrunes
  RunEnds
