SPECIFICATION BufferSpec
CONSTANTS
  Byte = {0, 1}
  Zero = 0
  kCheapPrepend = 2
  initialSize = 2
  ExtraSize = 3
  IntSize = 2
  MaxLen = 3
  MaxReadable = 4
INVARIANTS RoomIsMade
PROPERTIES QueueSpec
