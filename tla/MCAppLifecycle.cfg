CONSTANTS
  QueueLen = 2
  MaxPresses = 5
  MaxReports = 2
SPECIFICATION Spec
INVARIANTS
  AppIsSound
PROPERTIES
  HeldKeysDoNotAnswer
  FaultStopsItsApp
  FaultsAreShown
  ImplementsAppSession
