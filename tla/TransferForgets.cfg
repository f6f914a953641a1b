CONSTANTS
  h0 = h0
  h1 = h1
  MaxPeers = 4
  Peers = {1, 3}
  NumChunks = 1
  Hashes = {h0}
  HashOf <- OneChunk
  HasChunks <- AllHave
  DataTimeout = 4
  Junk = junk
  Suspects = {1}
  MaxFaults = 1
  MaxQueue = 1
  MaxCommands = 1
  Second = 1
  BufferLen = 2
  StartSsthresh = 2
  DupAckThres = 3
  AckTimeout = 0
  Alpha = 8
  ResendThres = 3
  NumBlocks = 2
  LastProviders <- Leftover
  MaxAge = 1
SPECIFICATION FairSpec
PROPERTIES
  DownloadCompletes
