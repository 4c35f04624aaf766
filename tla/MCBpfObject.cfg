SPECIFICATION Spec
CONSTANTS
  Handles = {h1, h2}
  Files <- AllFiles
  NoFile = NoFile
  Paths = {p1}
  Fds <- FewFds
  MaxCalls = 6
SYMMETRY ObjectSymmetry
INVARIANTS
  TypeOK
  FdsAccounted
  ProgramsUseOwnMaps
  AllOrNothing
  PinnedTogether
CHECK_DEADLOCK FALSE
