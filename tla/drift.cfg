SPECIFICATION Spec
CONSTANTS
  s1 = s1
  s2 = s2
  t1 = t1
  d1 = d1
  d2 = d2
  d3 = d3
  c1 = c1
  go = go
  turned = turned
  other = other
  r1 = r1
  high = high
  l1 = l1
  NoTool = NoTool
  NoDecl = NoDecl
  ConfigFile = ConfigFile
  Named = {s1}
  Found = {}
  Tool = {t1}
  Definition = {d1, d2, d3}
  Seal <- MCSeal
  Poisoned = {d3}
  Decl = {c1}
  Launch = {go, turned, other}
  Identity <- MCIdentity
  Rule = {r1}
  Severity = {high}
  MaxFlaws = 2
  Listener = {l1}
  InitialWorld <- MCInitialWorld
  Lock <- MCLock
  FailOnStale = TRUE
  MaxAge = 0
  MaxLosses = 1
  MaxChanges = 2
  MaxBaselines = 1
  MaxAcceptances = 1
  MaxDay = 1
INVARIANTS
  TypeOK
  GreenMeansVouched
  LostSightIsRed
  LessIsNeverRed
