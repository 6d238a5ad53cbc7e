SPECIFICATION Spec
CONSTANTS
  Typo = typo
  NoCard = NoCard
  NoPassword = NoPassword
  NoConn = NoConn
  NoReader = NoReader
  CanAllowedMode = FALSE
  Readers = {r1, r2}
  BasicReaders = {r1}
  Cards = {c1, c2}
  MaxMoves = 2
  MaxReadFailures = 0
  MaxQueue = 2
INVARIANTS HandleOwned
