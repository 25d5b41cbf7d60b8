SPECIFICATION LiveSpec
CONSTANTS
  a = a
  b = b
  Phones = {a, b}
  NoPhone = NoPhone
  Preferred = a
  NSms = 3
  Understands <- OldPhone
  Unparsable <- SecondOfA
  Deletable <- SecondAndThirdOfA
  Foreign = {1}
  Channels = {"telegram"}
  MessagesSize = 1
  EventsSize = 1
  FaultKinds = {"unplug", "list", "fetch", "crash"}
  MaxFaults = 2
PROPERTIES
  PhoneIsPolled
  PolledIsQueued
