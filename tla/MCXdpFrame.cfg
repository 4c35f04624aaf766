SPECIFICATION MCSpec
CONSTANTS
  Lens <- MCLens
  Srcs = {"s1", "s2"}
  Ports = {80}
  NoSrc = "none"
  LongSrc = "long"
  LongDev = "long"
  KnownDevs = {"eth0", "eth1"}
  KnownUsers = {"root"}
  MaxMaps = 3
  DefSize = 4
  MaxTypes = 4
  ExpandBy = 3
  UintMax = 15
  ResolveDepth = 3
  Part <- MCPart
  Options <- MCOptions
  UserOptions <- MCUserOptions
  Symbols <- MCSymbols
  Sections <- MCSections
  Addresses = {1, 2, 4, 7, 8, 11, 15}
  IntHalf = 8
  Attributes <- MCAttributes
  Types <- MCTypes
  MaxItems <- MCMaxItems
INVARIANTS
  ReadsInBounds
  VerdictIsPolicy
  CommandLineMeans
  LoaderLineMeans
  MapTableMatchesFile
  RelocationsRight
  KsymFound
  NlaIndexed
  BtfTableFits
  ResolveSizeExact
CHECK_DEADLOCK FALSE
