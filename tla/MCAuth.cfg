SPECIFICATION Spec
CONSTANTS
  Typo = typo
  NoCard = NoCard
  NoPassword = NoPassword
  NoConn = NoConn
  NoReader = NoReader
  CanAllowedMode = FALSE
  Readers = {r1}
  BasicReaders = {r1}
  Cards = {c1}
  MaxMoves = 2
  MaxReadFailures = 0
  MaxQueue = 1
INVARIANTS TypeOK PasswordsCleared SuccessIsReal
PROPERTIES EacInOrder SilentAfterError
PROPERTIES KilledStops CardsReleased
