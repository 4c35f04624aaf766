SPECIFICATION CaptureSpec
CONSTANTS
  NR_MAPS = 3
  Ifaces = {eth0}
  Loaders = {l1}
  Objs = {o1, o2, o3}
  None = None
  Faults <- SerialFaults
  Crashes = TRUE
  Removals = TRUE
  Captures = {p1, p2}
  CaptureFaults <- CaptureFaultKinds
INVARIANTS
  DeviceTypeOK
  SnifferHasOwner
  PcapClosedPerSignal
  BlacklistIsManaged
PROPERTIES
  ReloadKeepsRules
SYMMETRY DeviceSymmetry
