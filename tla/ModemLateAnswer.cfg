SPECIFICATION Spec
CONSTANTS
  Messages = {1, 2}
  Parts <- OneOne
  Ref <- Distinct
  Undated = {}
  Reports = {}
  Unreadable = {}
  Divided = {}
  NSlots = 1
  DeleteAfterRead = TRUE
  FaultKinds = {"late"}
  MaxFaults = 2
INVARIANTS
  NothingLost
