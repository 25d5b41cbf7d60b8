SPECIFICATION Spec
CONSTANTS
  NRows = 2
  Unrouted = {}
  AdbTriggers = {"adb"}
  ModemTriggers = {"modem"}
  MaxAttempts = 2
  BaseInterval = 0
  MaxBackoff = 4
  StaleAfter = 0
  AgeCap = 0
  FaultKinds = {"crash", "db", "ack", "hang", "unplug", "term"}
  MaxFaults = 2
INVARIANTS
  TypeOK
  SnapshotsHold
  CopiesAccounted
PROPERTIES
  SentIsFinal
  NoCopyForSettledRows
  KeepsPromise
