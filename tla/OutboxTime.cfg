SPECIFICATION Spec
CONSTANTS
  NRows = 2
  Unrouted = {2}
  AdbTriggers = {"adb"}
  ModemTriggers = {}
  MaxAttempts = 3
  BaseInterval = 1
  MaxBackoff = 2
  StaleAfter = 1
  AgeCap = 2
  FaultKinds = {"crash", "db", "ack", "hang", "unplug", "term"}
  MaxFaults = 1
INVARIANTS
  CopiesAccounted
PROPERTIES
  DueAfterBackoff
  ExhaustedIsFinal
  KeepsPromise
