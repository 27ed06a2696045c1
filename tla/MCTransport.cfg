SPECIFICATION Spec
CONSTANTS
  Versions <- MCVersions
  MinVersion = 2
  MaxVersion = 3
  ImageSize = 5
  MaxFlashWriteChunk = 2
  FixRetries = 3
  MaxRetry = 3
  MaxSignals = 2
INVARIANTS
  TransportTypeOK
  KeyFollowsPresence
  ReadyPanelIsConfigured
  FlashedOnlyWhenSupported
  UpdateIsComplete
PROPERTIES
  SetTransportKeyEnds
  PresentPanelIsUsed
