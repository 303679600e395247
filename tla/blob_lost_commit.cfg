SPECIFICATION Spec
CONSTANTS
  c1 = c1
  c2 = c2
  c3 = c3
  Clients <- TwoClients
  MaxVersion = 2
  Sharing = "oneeditor"
  CrashBetween = FALSE
  ReadsFirst = FALSE
SYMMETRY Symmetric
INVARIANT
  CommittedContentKept
