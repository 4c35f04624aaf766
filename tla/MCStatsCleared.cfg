SPECIFICATION Spec
CONSTANTS
  CPUs = {c1}
  Tools = {t1}
  Srcs = {s1}
  Ports = {65535}
  Frames <- TcpFrames
  NoFrame = NoFrame
  NoSrc = NoSrc
  BadSrc = BadSrc
  Ops <- TcpOps
  Conflicts = FALSE
  MaxEntries = 1
  DropModulus = 1000
  MaxRuns = 1
  MaxOps = 2
INVARIANTS
  StatsClearedOnDelete
CHECK_DEADLOCK FALSE
