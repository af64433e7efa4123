SPECIFICATION FairSpec
CONSTANTS
  ReadNew = ReadNew
  ReadFin = ReadFin
  SearchNew = SearchNew
  EventType <- MCEventType
  Awaited = ReadFin
  Ignored <- MCIgnored
  Sync = TRUE
  MaxValue = 2
CHECK_DEADLOCK FALSE
PROPERTIES ImplementsMailbox EventuallyHandled
