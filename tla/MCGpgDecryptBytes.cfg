SPECIFICATION Spec
CONSTANTS
  Programs <- BytePrograms
  ExitCodes = {0, 2}
  PipeLines = 2
INVARIANT
  AllForwarded
