SPECIFICATION UiSpec
CONSTANTS
  AuthRequests = {a1, a2}
  SdkRequests = {a1}
  Nobody = Nobody
  MaxPosted = 3
  MaxQuits = 2
INVARIANTS UiTypeOK OneInCharge CommandsFit EndIsPostedOnce ShutdownNotForgotten AuthAccounted
PROPERTIES KeepsDeskPromise AuthDecided ShutdownCompletes ClientLeavesNothing
