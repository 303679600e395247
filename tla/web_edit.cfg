SPECIFICATION Spec
\* The clock and the number of edits are bounded.
CHECK_DEADLOCK FALSE
CONSTANTS
  Users = {u1, u2}
  Nobody = Nobody
  NoStamp = NoStamp
  Props = {p1, p2}
  v1 = v1
  Values = {v1, v2, v3}
  Created <- OneRow
  FirstUpdaterWins = TRUE
  Quick = FALSE
  RejectLate = FALSE
  MaxTime = 3
  MaxEdits = 2
SYMMETRY Symmetry
INVARIANT TypeOK
PROPERTIES
  NothingUnseenIsReplaced
  JournalTellsHistory
