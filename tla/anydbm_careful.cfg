SPECIFICATION Spec
CONSTANTS
  MaxId = 2
  MaxOps = 5
  Names <- MCNames
  NoNode = NoNode
  Callers <- WebAndOperator
  FaultyCommit = FALSE
  Importing = FALSE
  Destroying = TRUE
INVARIANTS
  TypeOK
  KeyUnique
  EnumerationMatchesReads
  JournalMatchesNodes
PROPERTIES
  IdNeverReused
  RefinesContract
