SPECIFICATION Spec
CONSTANTS
  a = a
  b = b
  Phones = {a}
  NoPhone = NoPhone
  Preferred = NoPhone
  NSms = 1
  Understands <- NewPhones
  Unparsable = {}
  Deletable = {}
  Foreign = {1}
  Channels = {"telegram"}
  MessagesSize = 1
  EventsSize = 1
  FaultKinds = {"unplug"}
  MaxFaults = 1
INVARIANTS
  SavedIsEnqueued
