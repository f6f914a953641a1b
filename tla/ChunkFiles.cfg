CONSTANTS
  BlockBytes = 4
  LengthBytes = 2
  ChunkSize = 4
  PacketSize = 2
  Files <- FewFiles
  MaxList = 2
  None = None
SPECIFICATION Spec
CHECK_DEADLOCK FALSE
INVARIANTS
  ListingIsExact
  OutputIsListed
PROPERTIES
  WholeChunksAreTaken
