CONSTANTS
  carrier = carrier
  lab = lab
  None = None
  NSlots = 2
  Contents = {carrier, lab}
  Parse <- MCParse
  Hash <- MCHash
  Unreadable = {}
  Wired = {1, 2}
  Providers <- MCProviders
  Drivers = {d1, d2}
  MaxGen = 2
  MaxDisturbances = 1
SYMMETRY MCSymmetry
SPECIFICATION SpiSpec
INVARIANTS
  OneHolderPerSlot
  LeaseDiesWithModule
  LiveDeviceIsOnItsModule
PROPERTIES
  StaleDevicesStayStale
