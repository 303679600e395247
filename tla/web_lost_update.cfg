SPECIFICATION Spec
CHECK_DEADLOCK FALSE
CONSTANTS
  Users = {u1, u2}
  Nobody = Nobody
  NoStamp = NoStamp
  Props = {p1, p2}
  v1 = v1
  Values = {v1, v2, v3}
  Created <- OneRow
  FirstUpdaterWins = FALSE
  Quick = FALSE
  RejectLate = FALSE
  MaxTime = 2
  MaxEdits = 2
PROPERTY NothingUnseenIsReplaced
