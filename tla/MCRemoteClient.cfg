CONSTANTS
  d1 = d1
  d2 = d2
  Devices = {d1, d2}
  Descriptors <- MCDescriptors
  Unsupported = {d2}
  MaxRefusals = 2
  MaxInputs = 4
SPECIFICATION Spec
INVARIANTS TypeOK AnswersFindTheirEntry
PROPERTIES PairingAnswered
