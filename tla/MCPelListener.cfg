SPECIFICATION Spec
CONSTANTS
  Kinds <- MCKinds
  MaxPels = 3
CHECK_DEADLOCK FALSE
INVARIANTS
  ListenerInv
  SrcFunctionsShowNewestPel
PROPERTIES
  ErasedPelIsForgotten
  ImplementsAccess
