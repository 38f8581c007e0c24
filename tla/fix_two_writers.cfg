SPECIFICATION Spec
CONSTANTS
  f1 = f1
  f2 = f2
  q1 = q1
  q2 = q2
  q3 = q3
  none = none
  bad = bad
  torn = torn
  Fixer = {f1, f2}
  Path <- MCOnePath
  List <- MCList
  Reached <- MCReached
  Entry <- MCEntry
  Unsafe <- MCUnsafe
  Document <- MCDocument
  Unparsable = bad
  Torn = torn
  Absent = none
  Unreadable = {}
  Mode <- MCOneMode
  Masked <- MCOneMasked
  MaxRuns = 2
  MaxEdits = 0
  MaxFaults = 0
INVARIANT
  AlwaysWhole
