SPECIFICATION Spec
CONSTANTS
  Handles = {h1, h2}
  Files <- AllFiles
  NoFile = NoFile
  Paths = {p1}
  Fds <- FewFds
  MaxCalls = 2
INVARIANTS
  OpenGivesObjectOrError
CHECK_DEADLOCK FALSE
