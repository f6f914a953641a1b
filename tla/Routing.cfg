CONSTANTS
  Routers = {1, 2, 3, 4, 5}
SPECIFICATION RoutingSpec
INVARIANTS
  EveryHopGetsNearer
  SetUpGoesOn
CHECK_DEADLOCK FALSE
