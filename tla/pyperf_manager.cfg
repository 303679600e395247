SPECIFICATION Spec
\* The program ends.
CHECK_DEADLOCK FALSE
CONSTANTS
  NTasks = 2
  NPythons = 2
  Processes = 2
  LoopCounts <- SixLoops
  WarmupCounts <- SixWarmups
  LoopOptions <- GivenOrNot
  WarmupOptions <- NoneOrGiven
  MAX_CALIBRATION = 5
INVARIANTS
  TypeOK
  CalibrationBounded
  ValuesUseCalibration
  WorkerRunsItsTask
PROPERTY ProgramEnds
