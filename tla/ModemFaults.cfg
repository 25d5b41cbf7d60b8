SPECIFICATION LiveSpec
CONSTANTS
  Messages = {1, 2, 3, 4}
  Parts <- Various
  Ref <- LastTwoShare
  Undated = {}
  Reports = {1}
  Unreadable = {2}
  Divided = {}
  NSlots = 2
  DeleteAfterRead = TRUE
  FaultKinds = {"error", "mute", "port", "db", "twice", "crash"}
  MaxFaults = 2

  
PROPERTIES
  KeepsMailbox
  SimDrains
