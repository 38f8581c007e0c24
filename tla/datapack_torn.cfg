SPECIFICATION Spec
CONSTANTS
  i1 = i1
  i2 = i2
  s1 = s1
  old = old
  new = new
  unsigned = unsigned
  mal = mal
  raw = raw
  none = none
  builtin = builtin
  Installer = {i1}
  Scanner = {s1}
  Good <- MCGood
  Malformed = mal
  NotUtf8 = raw
  None = none
  Builtin = builtin
  Signed <- MCSigned
  MaxInstalls = 1
  MaxScans = 1
  MaxPublishes = 0
  MaxDrifts = 0
  MaxFaults = 1
INVARIANT
  ScanNeverCrashes
