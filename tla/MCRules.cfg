SPECIFICATION Spec
CONSTANTS
  CPUs = {c1, c2}
  Tools = {t1, t2}
  Srcs = {s1, s2}
  Ports = {22, 65535}
  Frames <- AllFrames
  NoFrame = NoFrame
  NoSrc = NoSrc
  BadSrc = BadSrc
  Ops <- EveryOp
  Conflicts = FALSE
  MaxEntries = 1
  DropModulus = 1000
  MaxRuns = 1
  MaxOps = 1
INVARIANTS
  TypeOK
  VerdictJustified
  PortRulesAddUp
PROPERTIES
  OnlyOwnRule
SYMMETRY ContentionSymmetry
CHECK_DEADLOCK FALSE
