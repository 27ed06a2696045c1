SPECIFICATION Function02Spec
CONSTANTS
  Functions <- IPLFunctions
  EnableMask <- MCEnableMask
  DefaultEnabled <- MCDefaultEnabled
  Debounce <- MCDebounce
  SubRangeEnd <- MCSubRangeEnd
  BMCReadings <- BMCReady
  PowerReadings <- PowerOff
  BootReadings <- PhypStopped
  ModeReadings <- BothModes
  PhypLists <- NoPhypLists
  CallOutCounts <- NoCallOuts
  IplTypes <- TwoIplTypes
  SrcLimit = 1
  PelsLogged <- NoPels
INVARIANTS
  Edit02InRange
  CursorReset
PROPERTIES
  OnlyChangesAreWritten
  PoliciesGoWithMode
