SPECIFICATION Spec
CONSTANTS
  c1 = c1
  c2 = c2
  c3 = c3
  Clients <- ThreeClients
  MaxVersion = 4
  Sharing = "readers"
  CrashBetween = TRUE
  ReadsFirst = TRUE
SYMMETRY Symmetric
INVARIANTS
  CommittedContentKept
  ServesLatest
  ServesOwnEdit
  ServedWasCommitted
