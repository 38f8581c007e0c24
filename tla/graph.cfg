SPECIFICATION Spec
CONSTANTS
  Words <- MCWords
  Catalog <- MCCatalog
  LocalShell <- MCLocalShell
  Machines <- MCMachines
  MaxHops = 4
  MaxPaths = 2
  Ceiling = 5
INVARIANTS
  TypeOK
  CompleteUnlessTruncated
  WorstSurvive
  ExposedPivotIsCritical
  TrustAndGraphAgree
