SPECIFICATION Spec
CONSTANTS
  Functions <- SRCFunctions
  EnableMask <- MCEnableMask
  DefaultEnabled <- MCDefaultEnabled
  Debounce <- MCDebounce
  SubRangeEnd <- MCSubRangeEnd
  BMCReadings <- BMCReady
  PowerReadings <- PowerOff
  BootReadings <- PhypStopped
  ModeReadings <- ManualMode
  PhypLists <- NoPhypLists
  CallOutCounts <- CallOutCountsShown
  IplTypes <- NoIplTypes
  SrcLimit = 2
  PelsLogged <- SomePels
INVARIANTS
  SubRangeInRange
  ExecutedSubFunctionExists
  EnabledCallOutExists
