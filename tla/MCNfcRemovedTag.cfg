SPECIFICATION NfcSpec
CONSTANTS
  Uids = {t1, t2}
  NoTag = NoTag
  Refused = {}
  Pages = 2
  MaxRequests = 1
  PollErrors = 3
  PollMisses = 2
  IdleMisses = 2
CHECK_DEADLOCK FALSE
PROPERTY RemovedTagForgotten
