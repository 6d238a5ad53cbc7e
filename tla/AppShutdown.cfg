SPECIFICATION Spec
CONSTANTS
  AuthRequests = {a1}
  Nobody = Nobody
  MaxPosted = 2
  MaxQuits = 2
PROPERTIES NoSuccessorDuringShutdown
