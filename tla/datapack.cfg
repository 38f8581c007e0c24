SPECIFICATION FairSpec
CONSTANTS
  i1 = i1
  i2 = i2
  s1 = s1
  old = old
  new = new
  unsigned = unsigned
  mal = mal
  raw = raw
  none = none
  builtin = builtin
  Installer = {i1, i2}
  Scanner = {s1}
  Good <- MCGood
  Malformed = mal
  NotUtf8 = raw
  None = none
  Builtin = builtin
  Signed <- MCSigned
  MaxInstalls = 2
  MaxScans = 1
  MaxPublishes = 1
  MaxDrifts = 1
  MaxFaults = 1
INVARIANTS
  TypeOK
  OnlySignedStored
  InstalledPackIsUsed
  RejectionReported
PROPERTY
  ScanEnds
