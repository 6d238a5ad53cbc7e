SPECIFICATION Spec
CONSTANTS
  Typo = typo
  NoCard = NoCard
  NoPassword = NoPassword
  NoConn = NoConn
  NoReader = NoReader
  CanAllowedMode = FALSE
  Readers = {r1}
  BasicReaders = {r1}
  Cards = {c1}
  MaxMoves = 6
  MaxReadFailures = 0
  MaxQueue = 1
INVARIANTS RightPasswordAsked RejectedOnce
PROPERTIES AttemptReportedRight LastAttemptBehindCan
