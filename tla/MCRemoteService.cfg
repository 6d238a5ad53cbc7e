CONSTANTS
  PaceIds = {"PIN", "PUK"}
  FullCounter = 2
  MaxSessions = 2
  MaxMoves = 2
  MaxReadFailures = 1
  MaxStops = 1
  MaxQueue = 1
SPECIFICATION Spec
INVARIANTS TypeOK RejectedPinNotSentAgain AnswerIsHonest IdleForgets
