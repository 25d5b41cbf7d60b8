SPECIFICATION Spec
CONSTANTS
  a = a
  b = b
  Phones = {a, b}
  NoPhone = NoPhone
  Preferred = NoPhone
  NSms = 3
  Understands <- OldPhone
  Unparsable <- SecondOfB
  Deletable <- SecondOfB
  Foreign = {1}
  Channels = {"telegram"}
  MessagesSize = 1
  EventsSize = 1
  FaultKinds = {"unplug", "list", "fetch", "db", "crash"}
  MaxFaults = 2
INVARIANTS
  TypeOK
  CursorPassesNone
  UnsavedPaid
  HandedOnce
PROPERTIES
  OnePoller
  SettledBeforeQueued
