SPECIFICATION Spec
\* Runs end; nobody has to start another one.
CHECK_DEADLOCK FALSE
CONSTANTS
  f1 = f1
  f2 = f2
  Files <- TwoFiles
  NRuns = 2
  Modes <- TheModes
  Workers = 2
  MaxEdits = 1
  Editing = "idle"
  Faulty = {1}
  MaxFaults = 1
INVARIANTS
  TypeOK
  CachedIsFormatted
  CheckTellsTruth
  EverySourceCounted
  CutIsReported
PROPERTY RunsEnd
