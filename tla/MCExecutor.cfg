SPECIFICATION Spec
CONSTANTS
  PhypFunctions = {21, 41}
  RemoteFunctions = {21}
  MaxStored = 2
  MaxPels = 2
  MaxCodes = 3
  MaxExecutions = 2
INVARIANTS
  ExecutorInv
PROPERTIES
  AnswerGoesToCaller
  WindowCloses
