SPECIFICATION Spec
CONSTANTS
  Functions <- SRCFunctions
  EnableMask <- MCEnableMask
  DefaultEnabled <- MCDefaultEnabled
  Debounce <- MCDebounce
  SubRangeEnd <- MCSubRangeEnd
  BMCReadings <- BMCReady
  PowerReadings <- PowerOff
  BootReadings <- PhypStopped
  ModeReadings <- ManualMode
  PhypLists <- NoPhypLists
  CallOutCounts <- CallOutCountsShown
  IplTypes <- NoIplTypes
  SrcLimit = 3
  PelsLogged <- SomePels
INVARIANTS
  CallOutReadNeverFails
