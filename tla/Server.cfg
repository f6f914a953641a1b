CONSTANTS
  Peers = {p1, p2, p3}
  Hashes = {h0}
  HasChunks = {h0}
  MaxUpload = 2
  MaxConn = 2
  BufferLen = 1
  StartSsthresh = 2
  DupAckThres = 2
  AckTimeout = 0
  Alpha = 8
  ResendThres = 1
  MaxAge = 1
  Period = 1
SPECIFICATION FairSpec
PROPERTIES
  ImplementsResponser
  CrashedClientIsReleased
  WaitingClientIsServed
