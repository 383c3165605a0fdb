SPECIFICATION Spec
CONSTANTS
  Programs <- AllPrograms
  ExitCodes = {0, 2}
  PipeLines = 2
INVARIANTS
  Forwarding
  ZeroMeansDone
PROPERTIES
  AlwaysReturns
  NoLateWrites
