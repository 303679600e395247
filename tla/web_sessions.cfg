SPECIFICATION Spec
CONSTANTS
  Sids = {s1, s2}
  Requests = {r1, r2}
  None = None
  Minute = 1
  Hour = 2
  Week = 3
  MaxTime = 6
SYMMETRY Symmetric
\* The clock stops at its bound.
CHECK_DEADLOCK FALSE
INVARIANTS
  TypeOK
  KeptWhileUsed
  LogoutIsFinal
  CleanerLeavesNothingOld
