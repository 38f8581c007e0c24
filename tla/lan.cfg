SPECIFICATION FairSpec
CONSTANTS
  h1 = h1
  h2 = h2
  h3 = h3
  p1 = p1
  p2 = p2
  Host <- MCHost
  Port <- MCPort
  Target <- MCTarget
  Expansion <- MCExpansion
  Invalid <- MCInvalid
  Single <- MCSingle
  Private <- MCPrivate
  Endless <- MCEndless
  Manifest <- MCManifest
  Policy <- MCPolicy
  Budget <- MCBudget
  VerifyTime = 1
  ProbeTime = 2
  StallTime = 1
INVARIANTS
  TypeOK
  OnlyAbortOrDeadlineCutsShort
  AbortStopsWithinOneProbe
  RuntimeBounded
  ReportMatchesAudit
PROPERTIES
  ImplementsAuthority
  Termination
