SPECIFICATION AccessSpec
CONSTANTS
  Functions <- MCFunctions
  EnableMask <- MCEnableMask
  DefaultEnabled <- MCDefaultEnabled
  BMCReadings <- MCBMCReadings
  PowerReadings <- MCPowerReadings
  BootReadings <- MCBootReadings
  ModeReadings <- MCModeReadings
  PhypLists <- MCPhypLists
  CallOutCounts <- MCCallOutCounts
INVARIANTS
  AccessTypeOK
  EnabledIffConditionsHold
  PanelAccessImpliesRemoteAccess
  SomeFunctionEnabled
PROPERTIES
  ConsentNeeded
