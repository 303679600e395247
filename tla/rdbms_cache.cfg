SPECIFICATION Spec
CONSTANTS
  x = x
  y = y
  NoNode = NoNode
  Unfetched = Unfetched
  MaxId = 2
  Values <- MCValues
  Links <- OneLink
  CacheSize = 1
  RollsBack = TRUE
  Others = TRUE
  Destroying = TRUE
  EditsWhileIterating = FALSE
  NewIdCommits = FALSE
  MaxOps = 4
INVARIANTS
  TypeOK
  LruMatchesCache
  CacheIsOfThisTransaction
PROPERTIES
  SetTakesEffect
  ReadsFailOnlyAfterDestroy
