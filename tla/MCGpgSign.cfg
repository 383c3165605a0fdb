SPECIFICATION Spec
CONSTANTS
  Payload = 4
  Signature = 4
  PipeChunks = 2
  ExitCodes = {0, 2}
INVARIANTS
  StatusFirst
  OkMeansAllPassed
PROPERTY
  SignReturns
