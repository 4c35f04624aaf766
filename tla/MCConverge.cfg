SPECIFICATION MCSpec
CONSTANTS
  CPUs = {c1, c2}
  Tools = {t1, t2}
  Srcs = {s1, s2, s3}
  Ports = {80, 65535}
  Frames <- OneFrame
  NoFrame = NoFrame
  NoSrc = NoSrc
  BadSrc = BadSrc
  Ops <- SrcAndPortOps
  Conflicts = FALSE
  MaxEntries = 2
  DropModulus = 1000
  MaxRuns = 1
  MaxOps = 4
  Bucket <- TwoBuckets
  MaxListings = 1
  MaxRounds = 2
INVARIANTS
  ListingFaithful
  StatsBracketed
CHECK_DEADLOCK FALSE
PROPERTIES
  EveryCallReturns
  CpusConverge
  ListingEnds
  ImplementsRuleTable
