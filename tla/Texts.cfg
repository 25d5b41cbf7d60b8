SPECIFICATION Spec
CONSTANTS
  MaxSize = 7
  MaxInbox = 2
  MaxWords = 25
  Characters = {"3", "9", "#", ";", "&", "'"}
  MaxCharacters = 5
INVARIANTS
  LegibleIsRead
  NoneIsGarbled
  PriorNotFilter
  TelegramShowsTheText
PROPERTIES
  EvidenceCounts
