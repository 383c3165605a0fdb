SPECIFICATION Spec
CONSTANTS
  Programs <- TextPrograms
  ExitCodes = {0, 2}
  PipeLines = 2
INVARIANT
  ExitCodeComesBack
