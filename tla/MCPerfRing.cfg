SPECIFICATION FairSpec
CONSTANTS
  Rings <- TwoRings
  Size = 8
  Sizes <- AllSizes
  LostSize = 1
  Kinds <- AllKinds
  MaxFrames = 5
INVARIANTS
  TypeOK
  CopyFits
  NoWakeUpLost
PROPERTIES
  RingIsQueue
  EveryRingDrained
CHECK_DEADLOCK FALSE
