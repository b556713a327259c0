SPECIFICATION Spec
CONSTANTS
  Scenarios <- MCScenarios
  Requests = {q1}
  Pages = {p1, p2}
  Template = template
  Durations_ <- MCDurations
  ShellFillCooldown = 2
  MaxPendingRegens = 1
  PlatformKeyCap = 1
  PlatformStoreCap = 1
  ServedShellCap = 1
  Lossy = TRUE
  MaxTime = 3
  MaxUpdates = 1
  MaxWrites = 1
INVARIANTS DocumentsRespectInvalidation StoredSupersedesSeed
  NoSiblingContent PprDocumentsComplete
