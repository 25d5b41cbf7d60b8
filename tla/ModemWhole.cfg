SPECIFICATION Spec
CONSTANTS
  Messages = {1, 2}
  Parts <- ThreeOne
  Ref <- Distinct
  Undated = {2}
  Reports = {}
  Unreadable = {}
  Divided = {1}
  NSlots = 3
  DeleteAfterRead = TRUE
  FaultKinds = {"error", "mute", "late", "port", "db", "imei", "crash"}
  MaxFaults = 2
INVARIANTS
  TypeOK
  WholeOnce
  CopiesPaid
