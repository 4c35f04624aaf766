SPECIFICATION Spec
CONSTANTS
  CPUs = {c1, c2}
  Tools = {t1, t2}
  Srcs = {s1}
  Ports = {65535}
  Frames <- TcpFrames
  NoFrame = NoFrame
  NoSrc = NoSrc
  BadSrc = BadSrc
  Ops <- CountOps
  Conflicts = TRUE
  MaxEntries = 1
  DropModulus = 2
  MaxRuns = 2
  MaxOps = 1
INVARIANTS
  BlacklistCountExact
  DropCountSound
  RuleCountsWithinDrops
SYMMETRY ContentionSymmetry
CHECK_DEADLOCK FALSE
