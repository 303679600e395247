SPECIFICATION Spec
CONSTANTS
  MaxId = 2
  MaxOps = 3
  Names <- MCNames
  NoNode = NoNode
  Callers <- Operator
  FaultyCommit = TRUE
  Importing = TRUE
  Destroying = TRUE
PROPERTIES
  JournalAheadOnlyInDestruction
  RefinesContract
