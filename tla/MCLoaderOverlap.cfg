SPECIFICATION Spec
CONSTANTS
  NR_MAPS = 2
  Ifaces = {eth0}
  Loaders = {l1, l2}
  Objs = {o1, o2, o3, o4}
  None = None
  Faults <- OverlapFaults
  Crashes = TRUE
  Removals = TRUE
INVARIANTS
  TypeOK
  LateRunsShare
SYMMETRY OverlapSymmetry
