CONSTANTS
  Peers = {p1, p2, p3, p4}
  Hashes = {h0, h1}
  HasChunks = {h0}
  MaxUpload = 4
  MaxConn = 3
SPECIFICATION Spec
SYMMETRY PeerSymmetry
INVARIANTS
  OneSenderEach
  CountIsExact
PROPERTIES
  Undisturbed
