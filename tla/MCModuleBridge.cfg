CONSTANTS
  carrier = carrier
  impossible = impossible
  mute = mute
  None = None
  NSlots = 2
  Contents = {carrier, impossible, mute}
  Parse <- MCParse
  Hash <- MCHash
  Unreadable = {mute}
  Wired = {1, 2}
  Providers <- MCProviders
  Drivers = {}
  MaxGen = 0
  MaxDisturbances = 2
  IrFitted = TRUE
SPECIFICATION BridgeSpec
INVARIANTS
  ConflictsWithheld
  LauncherIsCurrent
PROPERTIES
  EntriesFollowTwoPolls
