CONSTANTS
  Files = {config, icon}
  Config = config
  AppUrls = {"json", "notes"}
  MaxVersion = 2
  MaxChecks = 2
  MaxQueue = 2
  config = config
  icon = icon
SPECIFICATION Spec
INVARIANTS TypeOK WaitersAreServed FreshOrDirty
PROPERTIES UpdatesEnd
