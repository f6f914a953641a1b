CONSTANTS
  n1 = n1
  n2 = n2
  n3 = n3
  h1 = h1
  hostA = hostA
  hostB = hostB
  Nodes = {n1, n2, n3}
  Identity <- Identities
  Lists <- SomeLists
  Hashes = {h1}
  Has <- SomeHave
  ShortModulus = 4
  HeaderLen = 1
  HashLen = 2
  DataLen = 2
  MaxPktSize = 5
  Router = Router
  None = None
SPECIFICATION Spec
CHECK_DEADLOCK FALSE
INVARIANTS
  NumbersNameTheRightPeer
  OneHashEach
