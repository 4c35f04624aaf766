SPECIFICATION Spec
CONSTANTS
  CPUs = {c1}
  Tools = {t1, t2}
  Srcs = {s1}
  Ports = {65535}
  Frames <- NoFrames
  NoFrame = NoFrame
  NoSrc = NoSrc
  BadSrc = BadSrc
  Ops <- AddOps
  Conflicts = TRUE
  MaxEntries = 1
  DropModulus = 1000
  MaxRuns = 0
  MaxOps = 1
INVARIANTS
  AddSetsBit
CHECK_DEADLOCK FALSE
