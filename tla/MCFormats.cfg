SPECIFICATION Spec
CONSTANTS
  Base = 2
  Types <- MCTypes
  Capacities = {1, 4, 7, 8}
  MaxLen = 2
  MaxValues = 2
  MaxInput = 6
  RawKeys <- MCRawKeys
  MaxConversions = 6
INVARIANTS
  RoundTrip
  Canonical
  NothingBehindTorn
  SliceFull
  KeysInv
  KeyKept
  PublicKept
CHECK_DEADLOCK FALSE
