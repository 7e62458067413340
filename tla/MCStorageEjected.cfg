CONSTANTS
  Clients = {worker}
  Requesters = {ui}
  NSlots = 2
  GenRange = 2
  MaxLines = 1
SPECIFICATION StorageSpec
PROPERTIES
  EjectedStaysOut
