CONSTANTS
  Routers = {1, 2, 3}
  Links <- LineLinks
  Flows <- ThreeFlows
  Lens = {1, 2}
  QueueMax = 2
  Latency = 0
  TxTime = 1
SPECIFICATION FairSpec
INVARIANTS
  QueuesAreExact
  SleepsOnlyIdle
PROPERTIES
  LightTrafficIsKept
  ImplementsChannel
  Drains
