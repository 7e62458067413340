CONSTANTS
  Producers = {p1, p2}
  Types = {key, system}
  Subscribers = {ui, bridge}
  MaxSubs = 2
  Capacity = 2
  Wrap = 3
  MaxPublish = 4
  Clients = {worker}
  Requesters = {ui}
  NSlots = 2
  GenRange = 2
  MaxLines = 1
SPECIFICATION BothSpec
INVARIANTS
  BusIsSound
  NoLostWakeup
  AllSubscribersCalled
  HandlesAreSound
PROPERTIES
  EventuallyHandled
  ImplementsLossyFifo
  EjectSparesOpenFiles
  EjectedReturnIsTold
  RequestsAreServed
  RemovalIsNoticed
