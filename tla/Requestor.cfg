CONSTANTS
  MaxPeers = 4
  Peers = {1, 3}
  NumChunks = 2
  NumBlocks = 2
  DataTimeout = 2
  Hashes = {h0, h1}
  h0 = h0
  h1 = h1
  HashOf <- TwoChunks
  Junk = junk
  LastProviders <- Leftovers
SPECIFICATION Spec
INVARIANTS
  TypeOK
  Matching
  ArmedTimer
  Accounting
  AckIsHonest
  FileIntegrity
  ProvidersDistinct
PROPERTIES
  CompleteOnFinish
  NoRework
  GetDiscipline
  TickIsThorough
  ImplementsDownload
