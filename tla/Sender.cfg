CONSTANTS
  BufferLen = 6
  StartSsthresh = 3
  DupAckThres = 3
  AckTimeout = 1
  Alpha = 8
  ResendThres = 2
  MaxAge = 4
  Period = 2
SPECIFICATION SenderSpec
INVARIANTS
  WindowOfLivePackets
  NoGap
  SlowStartBelowThreshold
PROPERTIES
  StaysInWindow
  NoPrematureClose
