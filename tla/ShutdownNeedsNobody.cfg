SPECIFICATION UiSpec
CONSTANTS
  AuthRequests = {a1}
  SdkRequests = {}
  Nobody = Nobody
  MaxPosted = 2
  MaxQuits = 1
PROPERTIES ShutdownNeedsNobody
