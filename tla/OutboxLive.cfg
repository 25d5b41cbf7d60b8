SPECIFICATION LiveSpec
CONSTANTS
  NRows = 2
  Unrouted = {}
  AdbTriggers = {"adb"}
  ModemTriggers = {}
  MaxAttempts = 2
  BaseInterval = 0
  MaxBackoff = 4
  StaleAfter = 1
  AgeCap = 0
  FaultKinds = {"crash", "db", "ack", "hang", "unplug", "term"}
  MaxFaults = 2
PROPERTIES
  Drains
