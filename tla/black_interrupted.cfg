SPECIFICATION Spec
CHECK_DEADLOCK FALSE
CONSTANTS
  f1 = f1
  f2 = f2
  Files <- TwoFiles
  NRuns = 1
  Modes <- OnlyCheck
  Workers = 2
  MaxEdits = 0
  Editing = "never"
  Faulty = {1}
  MaxFaults = 1
INVARIANT ZeroMeansUnchanged
