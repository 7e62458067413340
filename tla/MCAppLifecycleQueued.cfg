CONSTANTS
  QueueLen = 2
  MaxPresses = 5
  MaxReports = 2
SPECIFICATION Spec
PROPERTIES
  QueuedKeysDoNotConfirm
