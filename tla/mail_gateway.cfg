SPECIFICATION MCSpec
\* All mails have been delivered and taken.
CHECK_DEADLOCK FALSE
CONSTANTS
  Count = 2
  Gateways = {g1, g2}
  NoGateway = NoGateway
  MtaLocks = TRUE
  MaxAborts = 1
  MaxFaults = 1
INVARIANTS
  TypeOK
  NoMailIsLost
  OncePerRun
  OneAccountPerAuthor
PROPERTY EveryMailIsTaken
