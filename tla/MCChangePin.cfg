SPECIFICATION Spec
CONSTANTS
  Typo = typo
  NoCard = NoCard
  NoPassword = NoPassword
  NoConn = NoConn
  NoReader = NoReader
  CanAllowedMode = FALSE
  Readers = {r1}
  BasicReaders = {r1}
  Cards = {c1}
  MaxMoves = 3
  MaxReadFailures = 1
  MaxQueue = 2
INVARIANTS TypeOK PasswordsForgotten SuccessMeansDone
PROPERTIES SilentAfterError
PROPERTIES KilledStops ErrorEnds CardsReleased
