SPECIFICATION Spec
CONSTANTS
  Functions <- CEFunctions
  EnableMask <- MCEnableMask
  DefaultEnabled <- MCDefaultEnabled
  Debounce <- MCDebounce
  SubRangeEnd <- MCSubRangeEnd
  BMCReadings <- BothBMCStates
  PowerReadings <- BothPowerStates
  BootReadings <- AnyBootState
  ModeReadings <- BothModes
  PhypLists <- SomePhypLists
  CallOutCounts <- OneCallOut
  IplTypes <- NoIplTypes
  SrcLimit = 1
  PelsLogged <- NoPels
INVARIANTS
  MenuTypeOK
  DebounceIsForCurrentFunction
  ServiceSwitchIffLast25
  SwitchAndCEModeExclusive
PROPERTIES
  CEModeNeeds25Then26
  ExecutedOnlyWhenConfirmed
  ImplementsMenu
