\* One bind, three packets, a timeout and a call of the application that post events.
CONSTANTS
  page_size = 12
  page_header_size = 2
  alignment = 2
  EventSize = 4
  EntrySize = 2
  DataSizes = {7}
  KeySize = 11
  MaxPackets = 3
  MaxTimeouts = 1
  MaxCalls = 1
  MaxBinds = 1
  MaxPosts = 2
SPECIFICATION FairSpec
CHECK_DEADLOCK FALSE
INVARIANTS ListIsFifo QueueInMemory ReturnedEventLives EventsAreFifo
PROPERTY EveryPacketHandled
